---- MODULE Spec2Model ----
(***************************************************************************)
(* A model of the resilient Lark API client (src/core/lark_client.py) and  *)
(* of the tree construction (src/core/tree_builder.py,                     *)
(* src/tools/tree_analyzer.py) of user_story_map_converter.                *)
(*                                                                         *)
(* Five components are modelled, each with a specification of its own over *)
(* the shared variables (a component's variables stay unchanged under the  *)
(* other components' specifications):                                      *)
(*   SpecExec  RequestManager.make_request_with_retry                      *)
(*   SpecAuth  EnhancedAuthManager.get_valid_token                         *)
(*   SpecRate  RateLimitManager.wait_if_needed                             *)
(*   SpecTree  TreeBuilder.build_tree and TreeAnalyzer's tree analysis     *)
(*   SpecClient LarkClient, which composes the first three                 *)
(***************************************************************************)
EXTENDS Integers, Sequences, FiniteSets, TLC

VARIABLES
    \* ---- RequestManager (one calling thread) ----
    responses,          \* what the server answers to attempt 1, 2, ... of the call
    rm_pc,              \* "idle" | "attempt" | "sleep" | "done"
    attempt,            \* the loop index of make_request_with_retry
    attempt_log,        \* history: per attempt, the raw response and its classification
    retries,            \* history: the number of delays slept so far
    delay,              \* the delay being slept (tenths of a second), 0 when not sleeping
    last_exception,     \* whether last_exception is set
    rm_result,          \* the LarkResponse returned, NoResponse before the return
    requests_total,     \* RequestManager.requests_total
    requests_failed,    \* RequestManager.requests_failed
    \* ---- TreeBuilder / TreeAnalyzer ----
    fields,             \* the 'fields' of one record, by candidate parent field name
    extracted_parent,   \* what _extract_parent_id returned for them, NotExtracted before
    lark_records,       \* the record list handed to the build
    filtered_stats,     \* TreeBuilder.filtered_stats
    tree_result,        \* what the last build_tree call returned, NoResult before
    builds,             \* the number of build_tree calls made
    analysis,           \* what TreeAnalyzer.analyze_tree_structure returned, NoResult before
    \* ---- build_tree calls of the threads that share the TreeBuilder ----
    build_pc,           \* per thread: its place in build_tree
    build_records,      \* per thread: the record list of its call
    build_pos,          \* per thread: the record its parse loop is at
    build_result,       \* per thread: what its call returned, NoResult before
    build_overlap,      \* history, per thread: another call ran during its call
    \* ---- _update_metrics calls of the threads that share the RequestManager ----
    um_pc,              \* per thread: its place in _update_metrics
    um_loaded,          \* per thread: the counter value it has read and not yet written back
    um_success,         \* per thread: the `success` argument of its call
    um_calls,           \* history: the calls of _update_metrics started
    um_done,            \* history: the calls that have ended
    um_failed,          \* history: the ended calls whose success was False
    \* ---- TeamManager.team_lock, for the refresh requests of one team ----
    lock_file,          \* temp/.lock_<team_id>: whether it exists, and its mtime
    team_pc,            \* per request: its place in api_refresh_team and team_lock
    \* ---- time ----
    clock,              \* the current time, in seconds
    \* ---- EnhancedAuthManager ----
    token,              \* _token, NoToken for None
    token_expire_time,  \* _token_expire_time, NoTime for None
    token_lock,         \* the thread holding _token_lock, NoThread when free
    auth_refreshes,     \* auth_refreshes
    auth_pc,            \* per thread: its place in get_valid_token
    auth_attempt,       \* per thread: the loop index of _refresh_token_with_retry
    auth_wake_at,       \* per thread: when its time.sleep(delay) ends
    auth_log,           \* history, per thread: the attempts and sleeps of its call
    auth_result,        \* per thread: what its last get_valid_token call returned
    token_response,     \* history, per thread: the LarkResponse its last
                        \* _request_new_token returned, NoResponse when none
    \* ---- RateLimitManager ----
    rate_limit_enabled, \* rate_limit_enabled
    request_timestamps, \* request_timestamps
    rate_lock,          \* the thread holding self.lock, NoThread when free
    rate_limit_hits,    \* rate_limit_hits
    rate_pc,            \* per thread: its place in wait_if_needed
    rate_now,           \* per thread: its local `now`
    rate_wake_at,       \* per thread: when its time.sleep(wait_time) ends
    admitted,           \* history: the times at which calls of wait_if_needed returned
    rate_calls,         \* history: the number of calls of wait_if_needed so far
    rate_call,          \* history, per thread: when its last call of wait_if_needed was
                        \* made, the request_timestamps it met, and when it returned
    \* ---- LarkClient (one calling thread) ----
    client_pc,          \* "idle" | "token" | "rate" | "exec": the step of
                        \* _make_authenticated_request the client is in
    client_op,          \* the public operation in progress and its wiki_token
    client_stage,       \* the endpoint of the request in progress: "resolve" | "page" | "schema"
    token_cache,        \* _token_cache: wiki_token -> obj_token, NoObj when absent
    bearer,             \* the token in the Authorization header of the request in progress
    page_token,         \* the local page_token of _get_table_records_by_obj_token
    all_records,        \* the local all_records of _get_table_records_by_obj_token
    client_metrics,     \* LarkClient.metrics: requests_total, requests_failed
    client_result,      \* what the last public operation returned
    client_trace,       \* history: the steps of the public operation in progress
    client_ops,         \* history: the number of public operations called so far
    unauthorized        \* history: the last request that ended with an HTTP 401

execVars == <<responses, rm_pc, attempt, attempt_log, retries, delay,
              last_exception, rm_result, requests_total, requests_failed>>

buildVars == <<build_pc, build_records, build_pos, build_result, build_overlap>>

parentVars == <<fields, extracted_parent>>

treeVars == <<lark_records, filtered_stats, tree_result, builds, analysis, buildVars,
              parentVars>>

authVars == <<token, token_expire_time, token_lock, auth_refreshes, auth_pc,
              auth_attempt, auth_wake_at, auth_log, auth_result, token_response>>

rateVars == <<rate_limit_enabled, request_timestamps, rate_lock, rate_limit_hits,
              rate_pc, rate_now, rate_wake_at, admitted, rate_calls, rate_call>>

clientVars == <<client_pc, client_op, client_stage, token_cache, bearer, page_token,
                all_records, client_metrics, client_result, client_trace, client_ops,
                unauthorized>>

teamVars == <<lock_file, team_pc>>

metricVars == <<um_pc, um_loaded, um_success, um_calls, um_done, um_failed>>

vars == <<execVars, treeVars, metricVars, teamVars, clock, authVars, rateVars, clientVars>>

\* what the actions of one component leave unchanged
nonExecVars == <<treeVars, metricVars, teamVars, clock, authVars, rateVars, clientVars>>
nonTreeVars == <<execVars, metricVars, teamVars, clock, authVars, rateVars, clientVars>>
nonAuthVars == <<execVars, treeVars, metricVars, teamVars, rateVars, clientVars>>
nonRateVars == <<execVars, treeVars, metricVars, teamVars, authVars, clientVars>>

(***************************************************************************)
(* LarkErrorType and LarkResponse                                          *)
(***************************************************************************)
AUTHENTICATION == "authentication"
RATE_LIMIT     == "rate_limit"
FIELD_ERROR    == "field_error"
NETWORK        == "network"
SERVER         == "server"
UNKNOWN        == "unknown"
NoErrorType    == "none"

LarkErrorType == {AUTHENTICATION, RATE_LIMIT, FIELD_ERROR, NETWORK, SERVER, UNKNOWN}

\* LarkResponse(success, data, error_type, error_message, retry_after); the
\* payload is opaque (has_data), a message is named by its kind, retry_after
\* is in seconds with -1 for None.
LarkResponse(success, error_type, error_message, retry_after) ==
    [success |-> success, error_type |-> error_type,
     error_message |-> error_message, retry_after |-> retry_after]

NoRetryAfter == -1
NoResponse == LarkResponse(FALSE, NoErrorType, "no response", NoRetryAfter)

(***************************************************************************)
(* What one HTTP attempt can meet.  kind "transport" is a                  *)
(* requests.exceptions.RequestException raised by session.request; kind    *)
(* "http" is a response with a status, a body and a Retry-After header.    *)
(*   body: "ok"      JSON object with code 0                               *)
(*         "field"   JSON object, code # 0, msg contains FieldNameNotFound *)
(*         "other"   JSON object, code # 0, any other msg                  *)
(*         "badjson" not JSON                                              *)
(*         "nondict" JSON that is no object (a list, null): .get raises    *)
(*         "none"    not read (status # 200)                               *)
(*   ra_kind: "absent" | "int" (delta-seconds, ra_val) | "date" (HTTP-date)*)
(***************************************************************************)
Raw(kind, status, body, ra_kind, ra_val) ==
    [kind |-> kind, status |-> status, body |-> body,
     ra_kind |-> ra_kind, ra_val |-> ra_val]

Transport == Raw("transport", 0, "none", "absent", 0)
Http(status) == Raw("http", status, "none", "absent", 0)
Http200(body) == Raw("http", 200, body, "absent", 0)
Http429(ra_kind, ra_val) == Raw("http", 429, "none", ra_kind, ra_val)

Bodies == {"ok", "field", "other", "badjson", "nondict"}

RawResponses ==
    {Transport, Http(401), Http(404), Http(503)}
    \cup {Http200(b) : b \in Bodies}
    \cup {Http429("absent", 0), Http429("int", 5), Http429("date", 0)}
    \cup {Http429("int", 0), Http429("int", 70)}

\* The result of evaluating a Python call: a value, or an exception that is
\* not a RequestException (ValueError, AttributeError).
Returned(out) == [raised |-> FALSE, out |-> out]
Raised == [raised |-> TRUE, out |-> NoResponse]

(***************************************************************************)
(* The state of a component that a specification does not exercise.        *)
(***************************************************************************)
NoResult == [built |-> FALSE]
ZeroStats == [empty_story_no |-> 0, invalid_format |-> 0, valid_records |-> 0]

Threads == {"t1", "t2"}

NotExtracted == "not extracted"

ParentIdle ==
    /\ fields = << >>
    /\ extracted_parent = NotExtracted

BuildsIdle ==
    /\ build_pc = [t \in Threads |-> "idle"]
    /\ build_records = [t \in Threads |-> << >>]
    /\ build_pos = [t \in Threads |-> 0]
    /\ build_result = [t \in Threads |-> NoResult]
    /\ build_overlap = [t \in Threads |-> FALSE]

MetricsIdle ==
    /\ um_pc = [t \in Threads |-> "idle"]
    /\ um_loaded = [t \in Threads |-> 0]
    /\ um_success = [t \in Threads |-> TRUE]
    /\ um_calls = 0
    /\ um_done = 0
    /\ um_failed = 0

TreeIdle ==
    /\ lark_records = << >>
    /\ filtered_stats = ZeroStats
    /\ tree_result = NoResult
    /\ builds = 0
    /\ analysis = NoResult
    /\ BuildsIdle
    /\ ParentIdle
NoThread == "none"
NoToken == 0
NoTime == -1

NoLockFile == [exists |-> FALSE, mtime |-> NoTime]

TeamIdle ==
    /\ lock_file = NoLockFile
    /\ team_pc = [t \in Threads |-> "idle"]
NoCall == [returned |-> FALSE, token |-> NoToken]
NoRateCall == [at |-> NoTime, timestamps |-> << >>, returned_at |-> NoTime]

AuthIdle ==
    /\ clock = 0
    /\ token = NoToken
    /\ token_expire_time = NoTime
    /\ token_lock = NoThread
    /\ auth_refreshes = 0
    /\ auth_pc = [t \in Threads |-> "idle"]
    /\ auth_attempt = [t \in Threads |-> 0]
    /\ auth_wake_at = [t \in Threads |-> 0]
    /\ auth_log = [t \in Threads |-> << >>]
    /\ auth_result = [t \in Threads |-> NoCall]
    /\ token_response = [t \in Threads |-> NoResponse]

RateIdle ==
    /\ rate_limit_enabled = TRUE
    /\ request_timestamps = << >>
    /\ rate_lock = NoThread
    /\ rate_limit_hits = 0
    /\ rate_pc = [t \in Threads |-> "idle"]
    /\ rate_now = [t \in Threads |-> 0]
    /\ rate_wake_at = [t \in Threads |-> 0]
    /\ admitted = << >>
    /\ rate_calls = 0
    /\ rate_call = [t \in Threads |-> NoRateCall]

WikiTokens == {"w1"}
NoObj == "none"
NoCursor == 0
NoOp == [op |-> "none", wiki |-> "none"]
\* a value returned by a public operation: None, an obj_token, a list of
\* records or a schema
Value(kind, obj, items) == [kind |-> kind, obj |-> obj, items |-> items]
None == Value("none", NoObj, << >>)
NoClientResult == [returned |-> FALSE, op |-> NoOp, value |-> None]

\* no request has ended with an HTTP 401 yet
NoUnauthorized == [seen |-> FALSE, bearer |-> NoToken, expire |-> NoTime, refreshes |-> 0]

ClientIdle ==
    /\ client_pc = "idle"
    /\ client_op = NoOp
    /\ client_stage = "none"
    /\ token_cache = [w \in WikiTokens |-> NoObj]
    /\ bearer = NoToken
    /\ page_token = NoCursor
    /\ all_records = << >>
    /\ client_metrics = [requests_total |-> 0, requests_failed |-> 0]
    /\ client_result = NoClientResult
    /\ client_trace = << >>
    /\ client_ops = 0
    /\ unauthorized = NoUnauthorized

ExecIdle ==
    /\ responses = << >>
    /\ rm_pc = "idle"
    /\ attempt = 0
    /\ attempt_log = << >>
    /\ retries = 0
    /\ delay = 0
    /\ last_exception = FALSE
    /\ rm_result = NoResponse
    /\ requests_total = 0
    /\ requests_failed = 0

(***************************************************************************)
(* RequestManager: configuration.  Delays are in tenths of a second.       *)
(***************************************************************************)
\* config.get('max_retries', 3), modelled at a smaller value
MaxRetries == 2
\* config.get('retry_base_delay', 1.0)
BaseDelay == 10
\* config.get('retry_max_delay', 60.0)
MaxDelay == 600
\* int(response.headers.get('Retry-After', 60))
DefaultRetryAfter == 60
\* random.uniform(0.1, 0.3), in percent: the two ends and the middle
Jitters == {10, 20, 30}

Min(a, b) == IF a <= b THEN a ELSE b

RECURSIVE Pow2(_)
Pow2(n) == IF n <= 0 THEN 1 ELSE 2 * Pow2(n - 1)

(***************************************************************************)
(* RequestManager._handle_response: the classification of one response.    *)
(* int() of an HTTP-date Retry-After raises ValueError and .get on a JSON   *)
(* value that is no object raises AttributeError; neither is caught here.  *)
(***************************************************************************)
handle_response(raw) ==
    IF raw.status = 401 THEN
        Returned(LarkResponse(FALSE, AUTHENTICATION, "auth failed", NoRetryAfter))
    ELSE IF raw.status = 429 THEN
        IF raw.ra_kind = "date" THEN Raised
        ELSE Returned(LarkResponse(FALSE, RATE_LIMIT, "rate limited",
                 IF raw.ra_kind = "absent" THEN DefaultRetryAfter ELSE raw.ra_val))
    ELSE IF raw.status >= 500 THEN
        Returned(LarkResponse(FALSE, SERVER, "server error", NoRetryAfter))
    ELSE IF raw.status # 200 THEN
        Returned(LarkResponse(FALSE, UNKNOWN, "http status", NoRetryAfter))
    ELSE IF raw.body = "badjson" THEN
        Returned(LarkResponse(FALSE, UNKNOWN, "invalid json", NoRetryAfter))
    ELSE IF raw.body = "nondict" THEN Raised
    ELSE IF raw.body = "ok" THEN
        Returned(LarkResponse(TRUE, NoErrorType, "", NoRetryAfter))
    ELSE IF raw.body = "field" THEN
        Returned(LarkResponse(FALSE, FIELD_ERROR, "field error", NoRetryAfter))
    ELSE
        Returned(LarkResponse(FALSE, UNKNOWN, "api error", NoRetryAfter))

\* a _make_single_request that reports a transport failure without an
\* error type
make_single_request_untyped(raw) ==
    IF raw.kind = "transport"
    THEN Returned(LarkResponse(FALSE, NoErrorType, "network error", NoRetryAfter))
    ELSE handle_response(raw)

\* RequestManager._make_single_request: a RequestException becomes a NETWORK
\* outcome, any other exception propagates.
make_single_request(raw) ==
    IF raw.kind = "transport"
    THEN Returned(LarkResponse(FALSE, NETWORK, "network error", NoRetryAfter))
    ELSE handle_response(raw)

retryable_errors == {SERVER, RATE_LIMIT, NETWORK}

\* a should_retry that retries every failed outcome, whatever its classification
should_retry_any_error(response, att) ==
    IF att >= MaxRetries THEN FALSE
    ELSE ~response.success

\* a should_retry that stops one attempt early
should_retry_one_less(response, att) ==
    IF att >= MaxRetries - 1 THEN FALSE
    ELSE response.error_type \in retryable_errors

\* RequestManager._should_retry
should_retry(response, att) ==
    IF att >= MaxRetries THEN FALSE
    ELSE response.error_type \in retryable_errors

\* RequestManager._calculate_delay; has_response is FALSE for the call with
\* response None; a retry_after of None or 0 is falsy.
calculate_delay(att, has_response, response, jitter) ==
    IF has_response /\ response.retry_after # NoRetryAfter /\ response.retry_after # 0
    THEN Min(response.retry_after * 10, MaxDelay)
    ELSE LET d == BaseDelay * Pow2(att)
         IN  Min(d + (jitter * d) \div 100, MaxDelay)

\* an _update_metrics that counts no failure
update_metrics_total_only(total, failed, success) ==
    [total |-> total + 1, failed |-> failed]

\* RequestManager._update_metrics (the rolling average latency is not modelled)
update_metrics(total, failed, success) ==
    [total |-> total + 1, failed |-> IF success THEN failed ELSE failed + 1]

\* the response built after the loop ("all retries failed")
ExhaustedResponse == LarkResponse(FALSE, NETWORK, "retries exhausted", NoRetryAfter)

\* the classification recorded in the history for one attempt
Classification(r) ==
    IF r.raised THEN "exception"
    ELSE IF r.out.success THEN "success" ELSE r.out.error_type

(***************************************************************************)
(* RequestManager.make_request_with_retry, one step per loop iteration.    *)
(***************************************************************************)
ExecInit ==
    /\ responses \in [1..(MaxRetries + 1) -> RawResponses]
    /\ rm_pc = "idle"
    /\ attempt = 0
    /\ attempt_log = << >>
    /\ retries = 0
    /\ delay = 0
    /\ last_exception = FALSE
    /\ rm_result = NoResponse
    /\ requests_total = 0
    /\ requests_failed = 0
    /\ TreeIdle
    /\ AuthIdle
    /\ RateIdle
    /\ ClientIdle
    /\ MetricsIdle
    /\ TeamIdle

\* the call: last_exception = None, the loop starts with attempt 0
make_request_with_retry ==
    /\ rm_pc = "idle"
    /\ rm_pc' = "attempt"
    /\ attempt' = 0
    /\ last_exception' = FALSE
    /\ UNCHANGED <<responses, attempt_log, retries, delay, rm_result,
                   requests_total, requests_failed>>
    /\ UNCHANGED nonExecVars

\* one iteration of the loop body, up to its return, its sleep or its break
Attempt ==
    /\ rm_pc = "attempt"
    /\ LET raw == responses[attempt + 1]
           r == make_single_request(raw)
       IN  /\ attempt_log' = Append(attempt_log,
                  [raw |-> raw, cls |-> Classification(r), out |-> r.out])
           /\ IF ~r.raised
              THEN LET m == update_metrics(requests_total, requests_failed, r.out.success)
                   IN  /\ requests_total' = m.total
                       /\ requests_failed' = m.failed
                       /\ UNCHANGED last_exception
                       /\ IF r.out.success
                          THEN /\ rm_result' = r.out
                               /\ rm_pc' = "done"
                               /\ UNCHANGED <<delay, retries>>
                          ELSE IF should_retry(r.out, attempt)
                          THEN /\ \E j \in Jitters :
                                      delay' = calculate_delay(attempt, TRUE, r.out, j)
                               /\ retries' = retries + 1
                               /\ rm_pc' = "sleep"
                               /\ UNCHANGED rm_result
                          ELSE /\ rm_result' = r.out
                               /\ rm_pc' = "done"
                               /\ UNCHANGED <<delay, retries>>
              ELSE /\ last_exception' = TRUE
                   /\ UNCHANGED <<requests_total, requests_failed>>
                   /\ IF attempt < MaxRetries
                      THEN /\ \E j \in Jitters :
                                  delay' = calculate_delay(attempt, FALSE, NoResponse, j)
                           /\ retries' = retries + 1
                           /\ rm_pc' = "sleep"
                           /\ UNCHANGED rm_result
                      ELSE /\ rm_result' = ExhaustedResponse
                           /\ rm_pc' = "done"
                           /\ UNCHANGED <<delay, retries>>
    /\ UNCHANGED <<responses, attempt>>
    /\ UNCHANGED nonExecVars

\* time.sleep(delay) is over: the next iteration of range(max_retries + 1),
\* or the end of the loop
Wake ==
    /\ rm_pc = "sleep"
    /\ delay' = 0
    /\ attempt' = attempt + 1
    /\ IF attempt + 1 <= MaxRetries
       THEN rm_pc' = "attempt" /\ UNCHANGED rm_result
       ELSE rm_pc' = "done" /\ rm_result' = ExhaustedResponse
    /\ UNCHANGED <<responses, attempt_log, retries, last_exception,
                   requests_total, requests_failed>>
    /\ UNCHANGED nonExecVars

ExecNext == make_request_with_retry \/ Attempt \/ Wake

SpecExec == ExecInit /\ [][ExecNext]_vars

(***************************************************************************)
(* EnhancedAuthManager.get_valid_token, for the threads that share one     *)
(* manager.  A thread is at                                                *)
(*   "idle"     outside the call                                           *)
(*   "waiting"  at `with self._token_lock`, not yet holding the lock       *)
(*   "locked"   holding the lock, before _needs_refresh()                  *)
(*   "request"  in _refresh_token_with_retry, before _request_new_token()  *)
(*   "backoff"  in time.sleep(delay) between two attempts                  *)
(*   "return"   before `return self._token`                                *)
(*   "failed"   before `return None`                                       *)
(***************************************************************************)
\* config.get('auth_retries', 3)
AuthRetries == 3
\* timedelta(seconds=expires_in - 300)
ExpiryMargin == 300
\* config.get('token_refresh_buffer', 300): stored as refresh_buffer, read nowhere
TokenRefreshBuffer == 300
\* the lifetimes the token endpoint reports ('expire'; 7200 is also the default)
Ttls == {301, 7200}
\* the last second of the clock
MaxClock == 4

\* what one call of _request_new_token can end in: a success carrying a
\* token and its ttl, a failed LarkResponse, or an exception.  cause is
\* what the token endpoint did:
\*   "code0"     HTTP 200, JSON object with code 0
\*   "code"      HTTP 200, JSON object with another code
\*   "status"    another HTTP status
\*   "transport" requests.post raised a RequestException
\*   "badbody"   HTTP 200 with a body that response.json() or .get fails on
TokenOutcome(kind, ttl, cause) == [kind |-> kind, ttl |-> ttl, cause |-> cause]

TokenOutcomes == {TokenOutcome("ok", ttl, "code0") : ttl \in Ttls}
                 \cup {TokenOutcome("fail", 0, c) : c \in {"code", "status", "transport"}}
                 \cup {TokenOutcome("exc", 0, "badbody")}

\* the LarkResponse that _request_new_token returns (NoResponse when it raises)
request_new_token(o) ==
    IF o.cause = "code0" THEN LarkResponse(TRUE, NoErrorType, "", NoRetryAfter)
    ELSE IF o.cause = "code" THEN LarkResponse(FALSE, AUTHENTICATION, "auth error", NoRetryAfter)
    ELSE IF o.cause = "status" THEN LarkResponse(FALSE, NETWORK, "http status", NoRetryAfter)
    ELSE IF o.cause = "transport" THEN LarkResponse(FALSE, NETWORK, "network error", NoRetryAfter)
    ELSE NoResponse

\* a lock that any thread may take at any time
lock_ignored(lock) == TRUE

\* `with self._token_lock` can be entered
lock_free(lock) == lock = NoThread

\* a test that asks for a refresh at every call
needs_refresh_always(tok, expire, now) == TRUE

\* EnhancedAuthManager._needs_refresh
needs_refresh(tok, expire, now) ==
    tok = NoToken \/ expire = NoTime \/ now >= expire

\* a backoff that grows linearly
backoff_delay_linear(att) == 2 * att

\* delay = 2 ** attempt
backoff_delay(att) == Pow2(att)

Event(ev, val) == [ev |-> ev, val |-> val, at |-> clock]

AuthInit ==
    /\ AuthIdle
    /\ ExecIdle
    /\ TreeIdle
    /\ RateIdle
    /\ ClientIdle
    /\ MetricsIdle
    /\ TeamIdle

\* a thread calls get_valid_token and reaches the lock
get_valid_token(t) ==
    /\ auth_pc[t] = "idle"
    /\ auth_pc' = [auth_pc EXCEPT ![t] = "waiting"]
    /\ auth_log' = [auth_log EXCEPT ![t] = << >>]
    /\ auth_result' = [auth_result EXCEPT ![t] = NoCall]
    /\ auth_attempt' = [auth_attempt EXCEPT ![t] = 0]
    /\ token_response' = [token_response EXCEPT ![t] = NoResponse]
    /\ UNCHANGED <<clock, token, token_expire_time, token_lock, auth_refreshes,
                   auth_wake_at>>
    /\ UNCHANGED nonAuthVars

\* with self._token_lock:
AcquireTokenLock(t) ==
    /\ auth_pc[t] = "waiting"
    /\ lock_free(token_lock)
    /\ token_lock' = t
    /\ auth_pc' = [auth_pc EXCEPT ![t] = "locked"]
    /\ UNCHANGED <<clock, token, token_expire_time, auth_refreshes, auth_attempt,
                   auth_wake_at, auth_log, auth_result, token_response>>
    /\ UNCHANGED nonAuthVars

\* if self._needs_refresh():
CheckToken(t) ==
    /\ auth_pc[t] = "locked"
    /\ auth_pc' = [auth_pc EXCEPT ![t] =
                      IF needs_refresh(token, token_expire_time, clock)
                      THEN "request" ELSE "return"]
    /\ UNCHANGED <<clock, token, token_expire_time, token_lock, auth_refreshes,
                   auth_attempt, auth_wake_at, auth_log, auth_result, token_response>>
    /\ UNCHANGED nonAuthVars

\* one iteration of the loop of _refresh_token_with_retry: the request, then
\* _update_token and the return (with auth_refreshes += 1 in the caller), or
\* the sleep, or the end of the loop
RequestNewToken(t) ==
    /\ auth_pc[t] = "request"
    /\ \E o \in TokenOutcomes :
          /\ token_response' = [token_response EXCEPT ![t] = request_new_token(o)]
          /\ IF o.kind = "ok"
             THEN /\ token' = auth_refreshes + 1
                  /\ token_expire_time' = clock + o.ttl - ExpiryMargin
                  /\ auth_refreshes' = auth_refreshes + 1
                  /\ auth_log' = [auth_log EXCEPT ![t] = Append(@, Event("ok", auth_refreshes + 1))]
                  /\ auth_pc' = [auth_pc EXCEPT ![t] = "return"]
                  /\ UNCHANGED <<auth_attempt, auth_wake_at>>
             ELSE /\ UNCHANGED <<token, token_expire_time, auth_refreshes>>
                  /\ IF auth_attempt[t] < AuthRetries - 1
                     THEN /\ auth_log' = [auth_log EXCEPT ![t] =
                                  Append(Append(@, Event(o.kind, 0)),
                                         Event("sleep", backoff_delay(auth_attempt[t])))]
                          /\ auth_wake_at' = [auth_wake_at EXCEPT ![t] =
                                  clock + backoff_delay(auth_attempt[t])]
                          /\ auth_pc' = [auth_pc EXCEPT ![t] = "backoff"]
                          /\ UNCHANGED auth_attempt
                     ELSE /\ auth_log' = [auth_log EXCEPT ![t] = Append(@, Event(o.kind, 0))]
                          /\ auth_pc' = [auth_pc EXCEPT ![t] = "failed"]
                          /\ UNCHANGED <<auth_attempt, auth_wake_at>>
    /\ UNCHANGED <<clock, token_lock, auth_result>>
    /\ UNCHANGED nonAuthVars

\* time.sleep(delay) has ended: the next attempt
EndBackoff(t) ==
    /\ auth_pc[t] = "backoff"
    /\ clock >= auth_wake_at[t]
    /\ auth_attempt' = [auth_attempt EXCEPT ![t] = @ + 1]
    /\ auth_pc' = [auth_pc EXCEPT ![t] = "request"]
    /\ UNCHANGED <<clock, token, token_expire_time, token_lock, auth_refreshes,
                   auth_wake_at, auth_log, auth_result, token_response>>
    /\ UNCHANGED nonAuthVars

\* return self._token, leaving the with block
ReturnToken(t) ==
    /\ auth_pc[t] = "return"
    /\ auth_result' = [auth_result EXCEPT ![t] = [returned |-> TRUE, token |-> token]]
    /\ token_lock' = NoThread
    /\ auth_pc' = [auth_pc EXCEPT ![t] = "idle"]
    /\ UNCHANGED <<clock, token, token_expire_time, auth_refreshes, auth_attempt,
                   auth_wake_at, auth_log, token_response>>
    /\ UNCHANGED nonAuthVars

\* return None after the last failed attempt, leaving the with block
ReturnNone(t) ==
    /\ auth_pc[t] = "failed"
    /\ auth_result' = [auth_result EXCEPT ![t] = [returned |-> TRUE, token |-> NoToken]]
    /\ token_lock' = NoThread
    /\ auth_pc' = [auth_pc EXCEPT ![t] = "idle"]
    /\ UNCHANGED <<clock, token, token_expire_time, auth_refreshes, auth_attempt,
                   auth_wake_at, auth_log, token_response>>
    /\ UNCHANGED nonAuthVars

\* a second passes
AuthTick ==
    /\ clock < MaxClock
    /\ clock' = clock + 1
    /\ UNCHANGED authVars
    /\ UNCHANGED nonAuthVars

AuthNext ==
    \/ \E t \in Threads :
          \/ get_valid_token(t)
          \/ AcquireTokenLock(t)
          \/ CheckToken(t)
          \/ RequestNewToken(t)
          \/ EndBackoff(t)
          \/ ReturnToken(t)
          \/ ReturnNone(t)
    \/ AuthTick

SpecAuth == AuthInit /\ [][AuthNext]_vars

(***************************************************************************)
(* RateLimitManager.wait_if_needed, for the threads that share one         *)
(* manager.  A thread is at                                                *)
(*   "idle"      outside the call                                          *)
(*   "waiting"   at `with self.lock`, not yet holding the lock             *)
(*   "sleeping"  in time.sleep(wait_time), holding the lock                *)
(* Time passes while a thread sleeps or waits for the lock, and between    *)
(* calls; the statements between two of these take no time.                *)
(***************************************************************************)
\* the trailing window, in seconds: `now - t < 60` and `60 - (now - ...)`
Window == 60
\* config.get('requests_per_minute', 100), made small
RequestsPerMinute == 1
\* the seconds between two readings of the clock
TickLen == 20
\* the last second of the clock
MaxRateClock == 100
\* the calls of wait_if_needed made in one behaviour
MaxRateCalls == 3

\* [t for t in self.request_timestamps if now - t < 60]
prune(timestamps, now) == SelectSeq(timestamps, LAMBDA t : now - t < Window)

\* a wait that is the age of the oldest timestamp
wait_time_elapsed(timestamps, now) == now - timestamps[1]

\* wait_time = 60 - (now - self.request_timestamps[0])
wait_time(timestamps, now) == Window - (now - timestamps[1])

\* a call that leaves two timestamps
record_timestamp_twice(timestamps, now) == Append(Append(timestamps, now), now)

\* self.request_timestamps.append(now)
record_timestamp(timestamps, now) == Append(timestamps, now)

RateInit ==
    /\ rate_limit_enabled \in BOOLEAN
    /\ request_timestamps = << >>
    /\ rate_lock = NoThread
    /\ rate_limit_hits = 0
    /\ rate_pc = [t \in Threads |-> "idle"]
    /\ rate_now = [t \in Threads |-> 0]
    /\ rate_wake_at = [t \in Threads |-> 0]
    /\ admitted = << >>
    /\ rate_calls = 0
    /\ rate_call = [t \in Threads |-> NoRateCall]
    /\ AuthIdle
    /\ ExecIdle
    /\ TreeIdle
    /\ ClientIdle
    /\ MetricsIdle
    /\ TeamIdle

\* a thread calls wait_if_needed: it returns at once when rate limiting is
\* disabled, and reaches the lock otherwise
wait_if_needed(t) ==
    /\ rate_pc[t] = "idle"
    /\ rate_calls < MaxRateCalls
    /\ rate_calls' = rate_calls + 1
    /\ IF ~rate_limit_enabled
       THEN /\ admitted' = Append(admitted, clock)
            /\ rate_call' = [rate_call EXCEPT ![t] =
                    [at |-> clock, timestamps |-> request_timestamps, returned_at |-> clock]]
            /\ UNCHANGED rate_pc
       ELSE /\ rate_pc' = [rate_pc EXCEPT ![t] = "waiting"]
            /\ rate_call' = [rate_call EXCEPT ![t] =
                    [at |-> clock, timestamps |-> request_timestamps, returned_at |-> NoTime]]
            /\ UNCHANGED admitted
    /\ UNCHANGED <<rate_limit_enabled, request_timestamps, rate_lock, rate_limit_hits,
                   rate_now, rate_wake_at, clock>>
    /\ UNCHANGED nonRateVars

\* with self.lock: now, the pruning and the test of the ceiling; under the
\* ceiling the timestamp is appended and the call returns, all at the time
\* `now`; over it the thread starts to sleep, holding the lock
EnterRateLock(t) ==
    /\ rate_pc[t] = "waiting"
    /\ rate_lock = NoThread
    /\ rate_now' = [rate_now EXCEPT ![t] = clock]
    /\ LET kept == prune(request_timestamps, clock) IN
       IF Len(kept) >= RequestsPerMinute /\ wait_time(kept, clock) > 0
       THEN /\ request_timestamps' = kept
            /\ rate_lock' = t
            /\ rate_limit_hits' = rate_limit_hits + 1
            /\ rate_wake_at' = [rate_wake_at EXCEPT ![t] = clock + wait_time(kept, clock)]
            /\ rate_pc' = [rate_pc EXCEPT ![t] = "sleeping"]
            /\ UNCHANGED <<admitted, rate_call>>
       ELSE /\ request_timestamps' = record_timestamp(kept, clock)
            /\ admitted' = Append(admitted, clock)
            /\ rate_call' = [rate_call EXCEPT ![t].returned_at = clock]
            /\ rate_pc' = [rate_pc EXCEPT ![t] = "idle"]
            /\ UNCHANGED <<rate_lock, rate_limit_hits, rate_wake_at>>
    /\ UNCHANGED <<rate_limit_enabled, rate_calls, clock>>
    /\ UNCHANGED nonRateVars

\* time.sleep(wait_time) has ended: self.request_timestamps.append(now) with
\* the `now` read before the sleep, then the with block is left and the call
\* returns
EndRateSleep(t) ==
    /\ rate_pc[t] = "sleeping"
    /\ clock >= rate_wake_at[t]
    /\ request_timestamps' = record_timestamp(request_timestamps, rate_now[t])
    /\ rate_lock' = NoThread
    /\ admitted' = Append(admitted, clock)
    /\ rate_call' = [rate_call EXCEPT ![t].returned_at = clock]
    /\ rate_pc' = [rate_pc EXCEPT ![t] = "idle"]
    /\ UNCHANGED <<rate_limit_enabled, rate_limit_hits, rate_now, rate_wake_at,
                   rate_calls, clock>>
    /\ UNCHANGED nonRateVars

\* time passes
RateTick ==
    /\ clock + TickLen <= MaxRateClock
    /\ clock' = clock + TickLen
    /\ UNCHANGED rateVars
    /\ UNCHANGED nonRateVars

RateNext ==
    \/ \E t \in Threads :
          \/ wait_if_needed(t)
          \/ EnterRateLock(t)
          \/ EndRateSleep(t)
    \/ RateTick

SpecRate == RateInit /\ [][RateNext]_vars

(***************************************************************************)
(* LarkClient: one thread calling resolve_app_token, get_table_records and *)
(* get_table_schema.  Each request goes through                            *)
(* _make_authenticated_request, which runs get_valid_token, wait_if_needed *)
(* and make_request_with_retry of the three managers, in the steps         *)
(* modelled above, for the client's thread.                                *)
(***************************************************************************)
ClientThread == "t1"
\* the public operations called in one behaviour
MaxOps == 2
ClientOps == {"resolve", "records", "schema"}

\* the obj_token the server resolves a wiki_token to
ObjOf(w) == "obj of " \o w
\* the records of page k
Items(k) == <<2 * k - 1, 2 * k>>

\* response.data of a successful request, by endpoint: the node of a
\* resolution (with or without obj_token), a page of records with its
\* has_more and page_token, or a schema
NoData == [obj |-> NoObj, items |-> << >>, has_more |-> FALSE,
           page_token |-> NoCursor, schema |-> FALSE]

ServerData(stage, w, cursor) ==
    IF stage = "resolve"
    THEN {[NoData EXCEPT !.obj = o] : o \in {NoObj, ObjOf(w)}}
    ELSE IF stage = "page"
    THEN LET k == IF cursor = NoCursor THEN 1 ELSE cursor
         IN  {[NoData EXCEPT !.items = Items(k), !.has_more = h, !.page_token = c] :
                 h \in BOOLEAN, c \in {NoCursor, k + 1}}
    ELSE {[NoData EXCEPT !.schema = TRUE]}

\* what the server answers to the attempts of one request: the same to every
\* attempt, or one retryable failure and then success
ClientRaws ==
    {Http200("ok"), Http(401), Http(404), Http(503), Transport,
     Http200("nondict"), Http200("field"), Http429("int", 5)}

ClientScripts ==
    {[i \in 1..(MaxRetries + 1) |-> r] : r \in ClientRaws}
    \cup {[i \in 1..(MaxRetries + 1) |-> IF i = 1 THEN r ELSE Http200("ok")] :
             r \in {Http(503), Transport, Http200("nondict")}}

\* a step of the operation in progress, for the history
Step(ev, stage, tok, cursor, resp, data) ==
    [ev |-> ev, stage |-> stage, tok |-> tok, cursor |-> cursor, resp |-> resp,
     data |-> data]

\* LarkResponse(success=False, error_type=AUTHENTICATION) of lines 465-470
NoTokenResponse == LarkResponse(FALSE, AUTHENTICATION, "no token", NoRetryAfter)

\* a token test that never fails
no_token_never(tok) == FALSE

\* if not token:
no_token(tok) == tok = NoToken

\* a header without the token
bearer_missing(tok) == NoToken

\* 'Authorization': f'Bearer {token}'
bearer_of(tok) == tok

\* a cache that stores nothing
cache_put_nothing(cache, w, obj) == cache

\* self._token_cache[wiki_token] = obj_token
cache_put(cache, w, obj) == [cache EXCEPT ![w] = obj]

\* a pagination that ends only when no cursor is returned
last_page_no_cursor(data) == data.page_token = NoCursor

\* if not page_token or not response.data.get('has_more', False): break
last_page(data) == data.page_token = NoCursor \/ ~data.has_more

\* a failed page that discards what was accumulated
partial_result_empty(all) == << >>

\* the break on a failed page, then return all_records
partial_result(all) == all

\* a schema call that returns the payload whatever the outcome
schema_result_always(resp) == Value("schema", NoObj, << >>)

\* return response.data if response.success else None
schema_result(resp) == IF resp.success THEN Value("schema", NoObj, << >>) ELSE None

\* what the operation does next: another authenticated request, or its return
Request(stage, cache, all, cursor) ==
    [next |-> "request", stage |-> stage, cache |-> cache, all |-> all,
     cursor |-> cursor, value |-> None]
Return(value, cache, all, cursor) ==
    [next |-> "return", stage |-> "none", cache |-> cache, all |-> all,
     cursor |-> cursor, value |-> value]

\* get_table_records / get_table_schema / resolve_app_token once
\* resolve_app_token has produced obj (NoObj for None)
after_resolve(op, obj, cache) ==
    IF op = "resolve"
    THEN Return(IF obj = NoObj THEN None ELSE Value("obj", obj, << >>),
                cache, << >>, NoCursor)
    ELSE IF obj = NoObj
    THEN Return(IF op = "records" THEN Value("list", NoObj, << >>) ELSE None,
                cache, << >>, NoCursor)
    ELSE Request(IF op = "records" THEN "page" ELSE "schema", cache, << >>, NoCursor)

\* the code that follows the return of _make_authenticated_request, by the
\* endpoint the request was for
after_response(op, stage, w, cache, all, cursor, resp, data) ==
    IF stage = "resolve"
    THEN LET obj == IF resp.success THEN data.obj ELSE NoObj
         IN  after_resolve(op, obj,
                 IF obj # NoObj THEN cache_put(cache, w, obj) ELSE cache)
    ELSE IF stage = "page"
    THEN IF ~resp.success
         THEN Return(Value("list", NoObj, partial_result(all)), cache, all, cursor)
         ELSE LET all2 == all \o data.items
              IN  IF last_page(data)
                  THEN Return(Value("list", NoObj, all2), cache, all2, data.page_token)
                  ELSE Request("page", cache, all2, data.page_token)
    ELSE Return(schema_result(resp), cache, all, cursor)

authRest == <<token, token_expire_time, token_lock, auth_refreshes, auth_pc,
              auth_attempt, auth_wake_at, auth_log, token_response>>
rateRest == <<rate_limit_enabled, request_timestamps, rate_lock, rate_limit_hits,
              rate_pc, rate_now, rate_wake_at, admitted, rate_calls>>
execCall == <<responses, rm_pc, attempt, attempt_log, retries, delay,
              last_exception, rm_result>>

\* the operation goes on as c says: _make_authenticated_request is entered
\* for the next request (nothing of it done yet), or the operation returns
Proceed(c, op) ==
    /\ token_cache' = c.cache
    /\ all_records' = c.all
    /\ page_token' = c.cursor
    /\ bearer' = NoToken
    /\ client_stage' = c.stage
    /\ IF c.next = "request"
       THEN /\ client_pc' = "token"
            /\ auth_result' = [auth_result EXCEPT ![ClientThread] = NoCall]
            /\ rate_call' = [rate_call EXCEPT ![ClientThread] = NoRateCall]
            /\ responses' = << >>
            /\ rm_pc' = "idle"
            /\ attempt' = 0
            /\ attempt_log' = << >>
            /\ retries' = 0
            /\ delay' = 0
            /\ last_exception' = FALSE
            /\ rm_result' = NoResponse
            /\ client_result' = NoClientResult
       ELSE /\ client_pc' = "idle"
            /\ client_result' = [returned |-> TRUE, op |-> op, value |-> c.value]
            /\ UNCHANGED <<auth_result, rate_call, execCall>>
    /\ UNCHANGED <<requests_total, requests_failed, treeVars, metricVars, teamVars, clock,
                   authRest, rateRest>>

ClientInit ==
    /\ ClientIdle
    /\ MetricsIdle
    /\ TeamIdle
    /\ ExecIdle
    /\ AuthIdle
    /\ RateIdle
    /\ TreeIdle

\* a public operation is called: resolve_app_token looks into the cache first
ClientCall(op, w) ==
    /\ client_pc = "idle"
    /\ client_ops < MaxOps
    /\ client_ops' = client_ops + 1
    /\ client_op' = [op |-> op, wiki |-> w]
    /\ client_trace' = << >>
    /\ UNCHANGED <<client_metrics, unauthorized>>
    /\ Proceed(IF token_cache[w] # NoObj
               THEN after_resolve(op, token_cache[w], token_cache)
               ELSE Request("resolve", token_cache, << >>, NoCursor),
               [op |-> op, wiki |-> w])

\* get_valid_token has returned: without a token the request ends as an
\* AUTHENTICATION failure, with one the rate limiter is next
ClientGotToken ==
    /\ client_pc = "token"
    /\ auth_result[ClientThread].returned
    /\ LET tok == auth_result[ClientThread].token
           got == Append(client_trace,
                      Step("token", client_stage, tok, page_token, NoResponse, NoData))
       IN
       /\ client_trace' =
              IF no_token(tok)
              THEN Append(got, Step("response", client_stage, NoToken, page_token,
                                    NoTokenResponse, NoData))
              ELSE got
       /\ IF no_token(tok)
          THEN Proceed(after_response(client_op.op, client_stage, client_op.wiki,
                           token_cache, all_records, page_token,
                           NoTokenResponse, NoData), client_op)
          ELSE /\ client_pc' = "rate"
               /\ UNCHANGED <<client_stage, token_cache, bearer, page_token, all_records,
                              client_result>>
               /\ UNCHANGED <<execVars, treeVars, metricVars, teamVars, clock, authVars,
                              rateVars>>
    /\ UNCHANGED <<client_op, client_metrics, client_ops, unauthorized>>

\* wait_if_needed has returned: the headers are prepared and
\* make_request_with_retry is about to be called
ClientAdmitted ==
    /\ client_pc = "rate"
    /\ rate_call[ClientThread].returned_at # NoTime
    /\ bearer' = bearer_of(auth_result[ClientThread].token)
    /\ responses' \in ClientScripts
    /\ client_pc' = "exec"
    /\ client_trace' = Append(Append(client_trace,
           Step("admit", client_stage, NoToken, page_token, NoResponse, NoData)),
           Step("send", client_stage, bearer_of(auth_result[ClientThread].token),
                page_token, NoResponse, NoData))
    /\ UNCHANGED <<client_op, client_stage, token_cache, page_token, all_records,
                   client_metrics, client_result, client_ops, unauthorized>>
    /\ UNCHANGED <<rm_pc, attempt, attempt_log, retries, delay, last_exception,
                   rm_result, requests_total, requests_failed>>
    /\ UNCHANGED <<treeVars, metricVars, teamVars, clock, authVars, rateVars>>

\* the outcome _handle_response gives an HTTP 401
is_unauthorized(response) ==
    response = LarkResponse(FALSE, AUTHENTICATION, "auth failed", NoRetryAfter)

\* make_request_with_retry has returned: self._update_metrics(response), the
\* return of _make_authenticated_request and what the operation does with it
ClientRespond ==
    /\ client_pc = "exec"
    /\ rm_pc = "done"
    /\ client_metrics' =
           [requests_total |-> client_metrics.requests_total + 1,
            requests_failed |-> client_metrics.requests_failed
                                 + (IF rm_result.success THEN 0 ELSE 1)]
    /\ \E data \in (IF rm_result.success
                    THEN ServerData(client_stage, client_op.wiki, page_token)
                    ELSE {NoData}) :
          /\ client_trace' = Append(client_trace,
                 Step("response", client_stage, bearer, page_token, rm_result, data))
          /\ Proceed(after_response(client_op.op, client_stage, client_op.wiki,
                         token_cache, all_records, page_token, rm_result, data),
                     client_op)
    /\ unauthorized' =
           IF is_unauthorized(rm_result)
           THEN [seen |-> TRUE, bearer |-> bearer, expire |-> token_expire_time,
                 refreshes |-> auth_refreshes]
           ELSE unauthorized
    /\ UNCHANGED <<client_op, client_ops>>

\* the token endpoint, as drawn for the client: it succeeds or answers a
\* failure (an exception in the attempt takes the same path as a failure)
ClientTokenOutcome ==
    \A i \in 1..Len(auth_log'[ClientThread]) : auth_log'[ClientThread][i].ev # "exc"

\* the steps of get_valid_token, wait_if_needed and make_request_with_retry
\* that the client's thread takes inside _make_authenticated_request
ClientAuthStep ==
    /\ client_pc = "token"
    /\ \/ ~auth_result[ClientThread].returned /\ get_valid_token(ClientThread)
       \/ AcquireTokenLock(ClientThread)
       \/ CheckToken(ClientThread)
       \/ RequestNewToken(ClientThread) /\ ClientTokenOutcome
       \/ EndBackoff(ClientThread)
       \/ ReturnToken(ClientThread)
       \/ ReturnNone(ClientThread)

ClientRateStep ==
    /\ client_pc = "rate"
    /\ \/ rate_call[ClientThread].at = NoTime /\ wait_if_needed(ClientThread)
       \/ EnterRateLock(ClientThread)
       \/ EndRateSleep(ClientThread)

ClientExecStep ==
    /\ client_pc = "exec"
    /\ \/ make_request_with_retry
       \/ Attempt
       \/ Wake

\* time passes between two operations and while the client's thread is in
\* a sleep that has not ended (a refresh backoff, a rate-limit wait)
ClientTick ==
    /\ \/ client_pc = "idle"
       \/ auth_pc[ClientThread] = "backoff" /\ clock < auth_wake_at[ClientThread]
       \/ rate_pc[ClientThread] = "sleeping" /\ clock < rate_wake_at[ClientThread]
    /\ RateTick

ClientNext ==
    \/ \E op \in ClientOps : \E w \in WikiTokens : ClientCall(op, w)
    \/ ClientAuthStep
    \/ ClientGotToken
    \/ ClientRateStep
    \/ ClientAdmitted
    \/ ClientExecStep
    \/ ClientRespond
    \/ ClientTick

SpecClient == ClientInit /\ [][ClientNext]_vars

(***************************************************************************)
(* Claims about the rate limiter (checked under SpecRate)                  *)
(***************************************************************************)
\* the calls that returned in the 60 seconds that end at time T
AdmittedInWindow(T) ==
    {j \in 1..Len(admitted) : admitted[j] > T - Window /\ admitted[j] <= T}

\* C1: with rate limiting enabled, the calls of wait_if_needed that return
\* within any interval of 60 seconds are at most requests_per_minute.
C1_WindowCeiling ==
    rate_limit_enabled =>
        \A i \in 1..Len(admitted) :
            Cardinality(AdmittedInWindow(admitted[i])) <= RequestsPerMinute

\* the timestamps a call met that lay within the 60 seconds before it
RecordedInWindow(call) == prune(call.timestamps, call.at)

\* C13: a call of wait_if_needed that finds requests_per_minute (or more)
\* admissions recorded within the last 60 seconds returns no earlier than
\* 60 - (now - oldest of them) seconds after it was made.
C13_BlocksUntilWindowFrees ==
    rate_limit_enabled =>
        \A t \in Threads :
            LET call == rate_call[t]
                met == RecordedInWindow(call)
            IN  (call.returned_at # NoTime /\ Len(met) >= RequestsPerMinute) =>
                    call.returned_at - call.at >= Window - (call.at - met[1])

\* a call that met a full window, made 20 s after the oldest admission, has
\* returned 40 s later
C13_Witness ==
    /\ rate_limit_enabled
    /\ \E t \in Threads :
          LET call == rate_call[t]
              met == RecordedInWindow(call)
          IN  /\ call.returned_at # NoTime
              /\ Len(met) >= RequestsPerMinute
              /\ call.at - met[1] = TickLen
              /\ call.returned_at - call.at = Window - TickLen

\* C14: whenever the lock of the rate window is free, request_timestamps
\* holds at most requests_per_minute entries.
C14_TimestampsWithinCeiling ==
    rate_lock = NoThread => Len(request_timestamps) <= RequestsPerMinute

(***************************************************************************)
(* Claims about the credential manager (checked under SpecAuth)            *)
(***************************************************************************)
\* the thread is inside _refresh_token_with_retry: a token request or a backoff
InRefresh(t) == auth_pc[t] \in {"request", "backoff"}

\* the thread is inside the with block, where the token is read and returned
InTokenBlock(t) == auth_pc[t] \in {"locked", "request", "backoff", "return", "failed"}

\* C2: at most one refresh (token request plus backoff sequence) is in
\* progress at any time, and while it is, no other caller of get_valid_token
\* is at a place where it reads or returns the token: the others are outside
\* the call or blocked at the lock.
C2_OneRefreshOthersBlocked ==
    \A t \in Threads : \A u \in Threads \ {t} :
        InRefresh(t) => /\ ~InTokenBlock(u)
                        /\ token_lock = t

\* a caller is blocked at the lock while another thread's refresh is backing off
C2_Witness ==
    \E t \in Threads : \E u \in Threads \ {t} :
        /\ auth_pc[t] = "backoff"
        /\ auth_pc[u] = "waiting"
        /\ token_lock = t

\* the attempts of a call's log are at the odd places, its sleeps at the even
AttemptsOf(log) == (Len(log) + 1) \div 2

\* C10: in every call of get_valid_token, the attempts are at most
\* auth_retries; failed attempt i (from 0) is followed by a sleep of 2^i
\* seconds and the next attempt starts no earlier than that; a successful
\* attempt is the last entry (no attempt or sleep follows it); and a call
\* whose attempt k+1 succeeded after k failures returns the token that this
\* attempt obtained.
C10_RefreshBackoff ==
    \A t \in Threads :
        LET log == auth_log[t] IN
        /\ AttemptsOf(log) <= AuthRetries
        /\ \A j \in 1..Len(log) :
              /\ (j % 2 = 1) => log[j].ev \in {"ok", "fail", "exc"}
              /\ (j % 2 = 0) => /\ log[j].ev = "sleep"
                                /\ log[j].val = Pow2((j \div 2) - 1)
                                /\ log[j - 1].ev \in {"fail", "exc"}
              /\ (j % 2 = 1 /\ j >= 3) => log[j].at >= log[j - 2].at + log[j - 1].val
              /\ (log[j].ev \in {"fail", "exc"} /\ j < Len(log)) => log[j + 1].ev = "sleep"
              /\ (log[j].ev \in {"fail", "exc"} /\ j = Len(log)) =>
                     AttemptsOf(log) = AuthRetries
              /\ log[j].ev = "ok" => /\ j = Len(log)
                                     /\ auth_pc[t] \in {"return", "idle"}
                                     /\ token # NoToken
        /\ (auth_result[t].returned /\ log # << >> /\ log[Len(log)].ev = "ok") =>
               /\ auth_result[t].token = log[Len(log)].val
               /\ auth_result[t].token # NoToken
        /\ (auth_result[t].returned /\ log # << >> /\ log[Len(log)].ev # "ok") =>
               /\ auth_result[t].token = NoToken
               /\ AttemptsOf(log) = AuthRetries

\* a call that failed twice and then succeeded has returned: 3 attempts,
\* sleeps of 1 s then 2 s
C10_Witness ==
    \E t \in Threads :
        /\ auth_result[t].returned
        /\ Len(auth_log[t]) = 5
        /\ auth_log[t][1].ev \in {"fail", "exc"}
        /\ auth_log[t][2].val = 1
        /\ auth_log[t][3].ev \in {"fail", "exc"}
        /\ auth_log[t][4].val = 2
        /\ auth_log[t][5].ev = "ok"
        /\ auth_result[t].token = auth_log[t][5].val

\* the refresh condition as claimed: no credential stored, or the time is
\* within the safety margin of the stored expiry
ClaimedNeedsRefresh(tok, expire, now) ==
    tok = NoToken \/ expire = NoTime \/ now >= expire - TokenRefreshBuffer

\* C12: get_valid_token starts a refresh exactly when no credential is
\* stored or the time is within token_refresh_buffer of the stored expiry;
\* a successful refresh stores the expiry refresh time + ttl - 300 s; and a
\* call that starts no refresh returns the stored credential without a request.
C12_RefreshWithinMargin ==
    [][\A t \in Threads :
          /\ CheckToken(t) =>
                 ((auth_pc'[t] = "request")
                      <=> ClaimedNeedsRefresh(token, token_expire_time, clock))
          /\ (RequestNewToken(t) /\ token' # token) =>
                 \E ttl \in Ttls : token_expire_time' = clock + ttl - ExpiryMargin
          /\ (ReturnToken(t) /\ auth_log[t] = << >>) =>
                 /\ auth_result'[t].token = token
                 /\ token # NoToken]_vars

\* the threads whose call of get_valid_token sent a token request
Requesters == {t \in Threads : auth_log[t] # << >>}

\* every thread has called get_valid_token and returned; the first token
\* request ever answered succeeded, it was the first attempt of its call, no
\* token request of these calls failed, and the calls ended within the second
\* of that request, so that for every ttl the credential it stored has not
\* reached its computed expiry
CalledTogether(t) ==
    /\ \A u \in Threads : auth_result[u].returned /\ auth_pc[u] = "idle"
    /\ auth_log[t] # << >>
    /\ auth_log[t][1].ev = "ok"
    /\ auth_log[t][1].val = 1
    /\ auth_log[t][1].at = clock
    /\ \A u \in Threads : \A i \in 1..Len(auth_log[u]) : auth_log[u][i].ev = "ok"

\* C35: when the threads call get_valid_token concurrently while no valid
\* credential is stored and the token endpoint succeeds on the first attempt,
\* exactly one token request is sent, auth_refreshes grows by exactly 1, and
\* every caller returns the same token.
C35_OneRequestForConcurrentCallers ==
    \A t \in Threads :
        CalledTogether(t) =>
            /\ Requesters = {t}
            /\ Len(auth_log[t]) = 1
            /\ auth_refreshes = 1
            /\ \A u \in Threads : auth_result[u].token = token /\ token = 1

\* both threads have returned token 1 at time 0, one of them having sent the
\* one request
C35_Witness ==
    /\ clock = 0
    /\ \E t \in Threads : CalledTogether(t)
    /\ \A u \in Threads : auth_result[u].token = 1
    /\ Cardinality(Requesters) = 1

(***************************************************************************)
(* Claims about the request executor (checked under SpecExec)              *)
(***************************************************************************)
\* the classification of the scripted response to attempt i
ScriptClass(i) == Classification(make_single_request(responses[i]))

NonRetryable == {AUTHENTICATION, FIELD_ERROR, UNKNOWN}

\* C5: one call performs at most max_retries + 1 HTTP attempts, and every
\* attempt that is followed by another one had an outcome classified SERVER,
\* RATE_LIMIT or NETWORK.
C5_AttemptsBoundedAndOnlyAfterRetryable ==
    /\ Len(attempt_log) <= MaxRetries + 1
    /\ \A i \in 1..(Len(attempt_log) - 1) : attempt_log[i].cls \in retryable_errors

\* C6: an attempt classified AUTHENTICATION, FIELD_ERROR or UNKNOWN is the
\* last attempt of the call, whatever its number: the call has returned that
\* attempt's outcome, with no delay slept after it.
C6_NonRetryableReturnsAtOnce ==
    \A i \in 1..Len(attempt_log) :
        attempt_log[i].cls \in NonRetryable =>
            /\ i = Len(attempt_log)
            /\ rm_pc = "done"
            /\ rm_result = attempt_log[i].out
            /\ retries = i - 1
            /\ delay = 0

\* C6 witness: a 401 met on a later attempt (after a retry) ended the call
C6_Witness ==
    /\ rm_pc = "done"
    /\ Len(attempt_log) = 2
    /\ attempt_log[1].cls = SERVER
    /\ attempt_log[2].cls = AUTHENTICATION
    /\ rm_result.error_type = AUTHENTICATION

\* C7: when the first k scripted responses are retryable failures and
\* response k+1 is a success, the finished call has made exactly k+1
\* attempts and k retries and has returned the success outcome of attempt k+1.
C7_SuccessAfterKRetries ==
    \A k \in 0..MaxRetries :
        ( /\ rm_pc = "done"
          /\ \A i \in 1..k : ScriptClass(i) \in retryable_errors
          /\ ScriptClass(k + 1) = "success" )
        => /\ Len(attempt_log) = k + 1
           /\ retries = k
           /\ rm_result.success
           /\ rm_result = make_single_request(responses[k + 1]).out

\* C7 witness: HTTP 503, 503, 200 ended in a success after exactly 2 retries
C7_Witness ==
    /\ rm_pc = "done"
    /\ responses[1] = Http(503)
    /\ responses[2] = Http(503)
    /\ responses[3] = Http200("ok")
    /\ retries = 2
    /\ rm_result.success

\* C8: when every one of the max_retries + 1 attempts fails with a retryable
\* classification, the call returns a NETWORK outcome whose message describes
\* the retry exhaustion.
C8_ExhaustionReturnsNetwork ==
    ( /\ rm_pc = "done"
      /\ \A i \in 1..(MaxRetries + 1) : ScriptClass(i) \in retryable_errors )
    => /\ rm_result.error_type = NETWORK
       /\ rm_result.error_message = "retries exhausted"

\* the classification the claim gives to a response
ClaimedClass(raw) ==
    IF raw.kind = "transport" THEN NETWORK
    ELSE IF raw.status = 401 THEN AUTHENTICATION
    ELSE IF raw.status = 429 THEN RATE_LIMIT
    ELSE IF raw.status >= 500 THEN SERVER
    ELSE IF raw.status = 200 /\ raw.body = "ok" THEN "success"
    ELSE IF raw.status = 200 /\ raw.body = "field" THEN FIELD_ERROR
    ELSE UNKNOWN

\* C9: the classification of an attempt is a total function of the response:
\* every attempt yields the outcome the table gives (401 AUTHENTICATION, 429
\* RATE_LIMIT carrying the Retry-After value, >= 500 SERVER, transport
\* failure NETWORK, 200 with code 0 success, field-not-found FIELD_ERROR,
\* every other case UNKNOWN).
C9_ClassificationTotal ==
    \A i \in 1..Len(attempt_log) :
        LET e == attempt_log[i]
        IN  /\ e.cls = ClaimedClass(e.raw)
            /\ (e.raw.status = 429 /\ e.raw.ra_kind = "int")
                   => e.out.retry_after = e.raw.ra_val

(***************************************************************************)
(* Records and story numbers.                                              *)
(* A record is its record_id ("" when missing), its Story.No and the       *)
(* parent identifier its parent fields yield ("" when none).  A story      *)
(* number is the sequence of its hyphen-separated segments after strip(),  *)
(* each segment named by its class:                                        *)
(*   "STORY" the word story in any case, "ALPHA" letters only,             *)
(*   "ALNUM" letters and digits, "OTHER" empty or with any other character *)
(* << >> is the empty (or all-blank) string.                               *)
(***************************************************************************)
\* the longest record list built
MaxRecords == 3
\* the most build_tree calls made on one TreeBuilder
MaxBuilds == 2

RecordIds == {"A", "B", "C"}
NoId == ""
\* an identifier that no record of the batch carries
AbsentId == "X"
ParentRefs == {NoId} \cup RecordIds \cup {AbsentId}

EmptyStory == << >>
ValidStory == <<"STORY", "ALPHA", "ALNUM">>
BadKey == <<"ALPHA", "ALPHA">>
StoryNos == {EmptyStory, ValidStory, BadKey}

\* re.compile(r'^Story-[A-Z]+(-[A-Z0-9]+)+$', re.IGNORECASE)
story_pattern(story) ==
    /\ Len(story) >= 3
    /\ story[1] = "STORY"
    /\ story[2] \in {"STORY", "ALPHA"}
    /\ \A i \in 3..Len(story) : story[i] \in {"STORY", "ALPHA", "ALNUM"}

\* a validation that accepts every non-empty key
is_valid_story_format_any(story) == story # EmptyStory

\* TreeBuilder._is_valid_story_format
is_valid_story_format(story) ==
    IF story = EmptyStory THEN FALSE ELSE story_pattern(story)

Record(id, story, parent) == [record_id |-> id, story_no |-> story, parent |-> parent]

\* The records drawn as input.  _parse_record returns before it reads the
\* parent fields of a record without record_id or with a rejected story
\* number, and before it reads the story number of a record without
\* record_id, so one representative of each stands for all.
Records ==
    {Record(NoId, EmptyStory, NoId)}
    \cup {Record(id, st, NoId) : id \in RecordIds, st \in {EmptyStory, BadKey}}
    \cup {Record(id, ValidStory, p) : id \in RecordIds, p \in ParentRefs}

\* build_tree only compares identifiers, so a list stands for every renaming
\* of its identifiers: the lists drawn name their records A, B, C in the
\* order of first appearance.
InOrderOfAppearance(records) ==
    \A i \in 1..Len(records) :
        /\ records[i].record_id = "B" => \E j \in 1..(i - 1) : records[j].record_id = "A"
        /\ records[i].record_id = "C" => \E j \in 1..(i - 1) : records[j].record_id = "B"

RecordLists ==
    {records \in UNION {[1..n -> Records] : n \in 0..MaxRecords} :
        InOrderOfAppearance(records)}

(***************************************************************************)
(* TreeBuilder._parse_record: "none" (no record_id), "empty", "invalid" or *)
(* "valid" with the node's record_id and parent_id.                        *)
(***************************************************************************)
parse_record(record) ==
    IF record.record_id = NoId THEN "none"
    ELSE IF record.story_no = EmptyStory THEN "empty"
    ELSE IF ~is_valid_story_format(record.story_no) THEN "invalid"
    ELSE "valid"

\* a count that puts a record without record_id under empty_story_no
count_record_unidentified(stats, record) ==
    IF parse_record(record) \in {"none", "empty"}
    THEN [stats EXCEPT !.empty_story_no = @ + 1]
    ELSE IF parse_record(record) = "invalid" THEN [stats EXCEPT !.invalid_format = @ + 1]
    ELSE [stats EXCEPT !.valid_records = @ + 1]

\* filtered_stats after _parse_record(record)
count_record(stats, record) ==
    LET k == parse_record(record)
    IN  IF k = "empty" THEN [stats EXCEPT !.empty_story_no = @ + 1]
        ELSE IF k = "invalid" THEN [stats EXCEPT !.invalid_format = @ + 1]
        ELSE IF k = "valid" THEN [stats EXCEPT !.valid_records = @ + 1]
        ELSE stats

\* The dict nodes after the parse loop over records[1..n]: the keys in
\* insertion order (a repeated record_id keeps its first place and takes the
\* later node) and each key's declared parent.
RECURSIVE parse_nodes(_, _)
parse_nodes(records, n) ==
    IF n = 0 THEN [order |-> << >>, parent |-> [id \in RecordIds |-> NoId],
                   stats |-> ZeroStats]
    ELSE LET prev == parse_nodes(records, n - 1)
             r == records[n]
         IN  IF parse_record(r) = "valid"
             THEN [order |-> IF \E i \in 1..Len(prev.order) : prev.order[i] = r.record_id
                             THEN prev.order
                             ELSE Append(prev.order, r.record_id),
                   parent |-> [prev.parent EXCEPT ![r.record_id] = r.parent],
                   stats |-> count_record(prev.stats, r)]
             ELSE [prev EXCEPT !.stats = count_record(prev.stats, r)]

SeqToSet(sq) == {sq[i] : i \in 1..Len(sq)}

\* TreeNode.add_child(child) on the parent p: the children, parent_id and
\* level fields after it
add_child(t, p, child) ==
    IF child \in SeqToSet(t.children[p]) THEN t
    ELSE [t EXCEPT !.children[p] = Append(@, child),
                   !.parent_id[child] = p,
                   !.level[child] = t.level[p] + 1]

\* the "Build relationships" loop of build_tree over order[1..n]
RECURSIVE link_nodes(_, _, _)
link_nodes(order, declared, n) ==
    IF n = 0 THEN [children |-> [id \in RecordIds |-> << >>],
                   parent_id |-> declared,
                   level |-> [id \in RecordIds |-> 0],
                   root_nodes |-> << >>]
    ELSE LET t == link_nodes(order, declared, n - 1)
             node == order[n]
         IN  IF t.parent_id[node] # NoId /\ t.parent_id[node] \in SeqToSet(order)
             THEN add_child(t, t.parent_id[node], node)
             ELSE [t EXCEPT !.parent_id[node] = NoId,
                            !.root_nodes = Append(@, node)]

\* a _set_levels that hands its own level to the children
RECURSIVE set_levels_same_level(_, _, _, _, _)
set_levels_same_level(children, level, calls, visited, fuel) ==
    IF calls = << >> THEN [level |-> level, visited |-> visited, diverged |-> FALSE]
    ELSE IF fuel = 0 THEN [level |-> level, visited |-> visited, diverged |-> TRUE]
    ELSE LET node == Head(calls)[1]
             lv == Head(calls)[2]
             sub == [i \in 1..Len(children[node]) |-> <<children[node][i], lv>>]
         IN  set_levels_same_level(children, [level EXCEPT ![node] = lv],
                        sub \o Tail(calls), Append(visited, node), fuel - 1)

\* TreeBuilder._set_levels, as the sequence of its pending calls <<node,
\* level>> (the head runs next, a call's recursive calls run before the
\* calls after it).  fuel bounds the number of calls: a traversal that has
\* not ended after fuel calls would recurse without end.
RECURSIVE set_levels(_, _, _, _, _)
set_levels(children, level, calls, visited, fuel) ==
    IF calls = << >> THEN [level |-> level, visited |-> visited, diverged |-> FALSE]
    ELSE IF fuel = 0 THEN [level |-> level, visited |-> visited, diverged |-> TRUE]
    ELSE LET node == Head(calls)[1]
             lv == Head(calls)[2]
             sub == [i \in 1..Len(children[node]) |-> <<children[node][i], lv + 1>>]
         IN  set_levels(children, [level EXCEPT ![node] = lv],
                        sub \o Tail(calls), Append(visited, node), fuel - 1)

\* a build that keeps the counts of the previous build
reset_stats_kept(stats) == stats

\* "Reset statistics": self.filtered_stats = {... 0, ... 0, ... 0}
reset_stats(stats) == ZeroStats

\* the counts c added to the counts stats: _parse_record only increments
add_stats(stats, c) ==
    [empty_story_no |-> stats.empty_story_no + c.empty_story_no,
     invalid_format |-> stats.invalid_format + c.invalid_format,
     valid_records |-> stats.valid_records + c.valid_records]

\* TreeBuilder._get_metadata (the timestamp is left out)
get_metadata(stats) == [filtering_stats |-> stats]

\* TreeBuilder.build_tree(lark_records) on a builder whose filtered_stats is
\* stats: the returned forest and the builder's filtered_stats afterwards.
\* The forest is given by its roots (trees), and for the nodes that
\* to_dict reaches from them (nodes) their children, parent_id and level.
build_tree(stats, records) ==
    IF records = << >>
    THEN [built |-> TRUE, raised |-> FALSE, trees |-> << >>, nodes |-> {},
          children |-> [id \in RecordIds |-> << >>],
          parent_id |-> [id \in RecordIds |-> NoId],
          level |-> [id \in RecordIds |-> 0],
          metadata |-> get_metadata(stats), stats |-> stats]
    ELSE LET parsed == parse_nodes(records, Len(records))
             counted == add_stats(reset_stats(stats), parsed.stats)
             linked == link_nodes(parsed.order, parsed.parent, Len(parsed.order))
             roots == linked.root_nodes
             lv == set_levels(linked.children, linked.level,
                              [i \in 1..Len(roots) |-> <<roots[i], 0>>], << >>,
                              Len(parsed.order) + 1)
             forest == SeqToSet(lv.visited)
         IN  [built |-> TRUE, raised |-> lv.diverged, trees |-> roots, nodes |-> forest,
              children |-> [id \in RecordIds |->
                              IF id \in forest THEN linked.children[id] ELSE << >>],
              parent_id |-> [id \in RecordIds |->
                              IF id \in forest THEN linked.parent_id[id] ELSE NoId],
              level |-> [id \in RecordIds |-> IF id \in forest THEN lv.level[id] ELSE 0],
              metadata |-> get_metadata(counted), stats |-> counted]

(***************************************************************************)
(* TreeAnalyzer (src/tools/tree_analyzer.py), the second tree construction.*)
(* It does not validate story numbers: every record with a record_id is a  *)
(* node.                                                                   *)
(***************************************************************************)
\* TreeAnalyzer._parse_records: the dict _nodes after records[1..n]
RECURSIVE analyzer_parse(_, _)
analyzer_parse(records, n) ==
    IF n = 0 THEN [order |-> << >>, parent |-> [id \in RecordIds |-> NoId]]
    ELSE LET prev == analyzer_parse(records, n - 1)
             r == records[n]
         IN  IF r.record_id = NoId THEN prev
             ELSE [order |-> IF r.record_id \in SeqToSet(prev.order)
                             THEN prev.order
                             ELSE Append(prev.order, r.record_id),
                   parent |-> [prev.parent EXCEPT ![r.record_id] = r.parent]]

\* TreeAnalyzer._build_tree_relationships, first loop: the nodes without
\* parent_id, in order
RECURSIVE analyzer_roots(_, _, _)
analyzer_roots(order, declared, n) ==
    IF n = 0 THEN << >>
    ELSE LET rest == analyzer_roots(order, declared, n - 1)
         IN  IF declared[order[n]] = NoId THEN Append(rest, order[n]) ELSE rest

\* TreeAnalyzer._build_tree_relationships, second loop
RECURSIVE analyzer_link(_, _, _)
analyzer_link(order, declared, n) ==
    IF n = 0 THEN [children |-> [id \in RecordIds |-> << >>],
                   parent_id |-> declared,
                   level |-> [id \in RecordIds |-> 0]]
    ELSE LET t == analyzer_link(order, declared, n - 1)
             node == order[n]
         IN  IF t.parent_id[node] # NoId /\ t.parent_id[node] \in SeqToSet(order)
             THEN add_child(t, t.parent_id[node], node)
             ELSE t

\* TreeAnalyzer._has_cycle_dfs(node, visited, rec_stack): the loop over
\* node.children from the i-th child on, and the call itself
RECURSIVE has_cycle_dfs(_, _, _, _)
RECURSIVE has_cycle_dfs_from(_, _, _, _, _)
has_cycle_dfs_from(children, node, i, visited, rec_stack) ==
    IF i > Len(children[node])
    THEN [found |-> FALSE, visited |-> visited, rec_stack |-> rec_stack \ {node}]
    ELSE LET child == children[node][i]
         IN  IF child \notin visited
             THEN LET r == has_cycle_dfs(children, child, visited, rec_stack)
                  IN  IF r.found THEN r
                      ELSE has_cycle_dfs_from(children, node, i + 1, r.visited, r.rec_stack)
             ELSE IF child \in rec_stack
             THEN [found |-> TRUE, visited |-> visited, rec_stack |-> rec_stack]
             ELSE has_cycle_dfs_from(children, node, i + 1, visited, rec_stack)

has_cycle_dfs(children, node, visited, rec_stack) ==
    has_cycle_dfs_from(children, node, 1, visited \cup {node}, rec_stack \cup {node})

\* TreeAnalyzer._check_circular_references: circular_count after the roots
\* root_nodes[1..n], with the shared visited and rec_stack
RECURSIVE check_circular_references(_, _, _)
check_circular_references(children, root_nodes, n) ==
    IF n = 0 THEN [count |-> 0, visited |-> {}, rec_stack |-> {}]
    ELSE LET prev == check_circular_references(children, root_nodes, n - 1)
             r == has_cycle_dfs(children, root_nodes[n], prev.visited, prev.rec_stack)
         IN  [count |-> IF r.found THEN prev.count + 1 ELSE prev.count,
              visited |-> r.visited, rec_stack |-> r.rec_stack]

\* TreeAnalyzer._validate_tree_structure: the orphan count
orphan_count(order, parent_id) ==
    Cardinality({i \in 1..Len(order) :
        parent_id[order[i]] # NoId /\ parent_id[order[i]] \notin SeqToSet(order)})

\* TreeAnalyzer.analyze_tree_structure: raised is TRUE when it ends in a
\* TreeError (no records, or CircularReferenceError from the validation)
analyze_tree_structure(records) ==
    LET parsed == analyzer_parse(records, Len(records))
        n == Len(parsed.order)
        roots == analyzer_roots(parsed.order, parsed.parent, n)
        linked == analyzer_link(parsed.order, parsed.parent, n)
        lv == set_levels(linked.children, linked.level,
                         [i \in 1..Len(roots) |-> <<roots[i], 0>>], << >>, n + 1)
        circ == check_circular_references(linked.children, roots, Len(roots))
        failed == records = << >> \/ lv.diverged \/ circ.count > 0
    IN  [built |-> TRUE, raised |-> failed,
         trees |-> IF failed THEN << >> ELSE roots,
         nodes |-> IF failed THEN {} ELSE SeqToSet(lv.visited),
         children |-> linked.children,
         parent_id |-> linked.parent_id,
         level |-> lv.level,
         circular_refs |-> circ.count,
         orphan_nodes |-> orphan_count(parsed.order, linked.parent_id)]

(***************************************************************************)
(* The tree specification: a record list is drawn and built.               *)
(***************************************************************************)
TreeInit ==
    /\ lark_records \in RecordLists
    /\ filtered_stats = ZeroStats
    /\ tree_result = NoResult
    /\ builds = 0
    /\ analysis = NoResult
    /\ BuildsIdle
    /\ ParentIdle
    /\ ExecIdle
    /\ AuthIdle
    /\ RateIdle
    /\ ClientIdle
    /\ MetricsIdle
    /\ TeamIdle

\* tree_builder.build_tree(records)
BuildTree ==
    /\ builds < MaxBuilds
    /\ LET r == build_tree(filtered_stats, lark_records)
       IN  /\ tree_result' = [x \in (DOMAIN r) \ {"stats"} |-> r[x]]
           /\ filtered_stats' = r.stats
    /\ builds' = builds + 1
    /\ UNCHANGED <<lark_records, analysis, buildVars, parentVars>>
    /\ UNCHANGED nonTreeVars

\* TreeAnalyzer().analyze_tree_structure({'table_records': records})
AnalyzeTree ==
    /\ ~analysis.built
    /\ analysis' = analyze_tree_structure(lark_records)
    /\ UNCHANGED <<lark_records, filtered_stats, tree_result, builds, buildVars,
                   parentVars>>
    /\ UNCHANGED nonTreeVars

TreeNext == BuildTree \/ AnalyzeTree

SpecTree == TreeInit /\ [][TreeNext]_vars

(***************************************************************************)
(* build_tree called by two threads on the one TreeBuilder of the          *)
(* application (src/app.py: tree_builder), each with a list of its own.    *)
(* nodes, root_nodes and the TreeNodes are local to a call; filtered_stats *)
(* is a field of the shared builder.  A thread is at                       *)
(*   "idle"   before its call                                              *)
(*   "reset"  before "Reset statistics"                                    *)
(*   "parse"  in the parse loop, before _parse_record(records[pos])        *)
(*   "link"   after the parse loop, before the linking and the return      *)
(*   "done"   after the return                                             *)
(* The threads interleave between statements; a statement that updates     *)
(* filtered_stats is taken as one step.                                    *)
(***************************************************************************)
\* the longest record list of a concurrent build
MaxSharedRecords == 2

SharedRecords ==
    {Record("A", st, NoId) : st \in StoryNos} \cup {Record("B", ValidStory, "A")}

SharedLists == UNION {[1..n -> SharedRecords] : n \in 0..MaxSharedRecords}

\* what a build_tree call returns: the forest of its own nodes and the
\* metadata made of the builder's filtered_stats at the return
returned_forest(records, stats) ==
    LET r == build_tree(stats, records)
    IN  [[x \in (DOMAIN r) \ {"stats"} |-> r[x]]
            EXCEPT !.metadata = get_metadata(stats)]

BuildsInit ==
    /\ lark_records = << >>
    /\ filtered_stats = ZeroStats
    /\ tree_result = NoResult
    /\ builds = 0
    /\ analysis = NoResult
    /\ build_pc = [t \in Threads |-> "idle"]
    /\ build_records \in [Threads -> SharedLists]
    /\ build_records["t1"] # build_records["t2"]
    /\ build_pos = [t \in Threads |-> 0]
    /\ build_result = [t \in Threads |-> NoResult]
    /\ build_overlap = [t \in Threads |-> FALSE]
    /\ ParentIdle
    /\ ExecIdle
    /\ AuthIdle
    /\ RateIdle
    /\ ClientIdle
    /\ MetricsIdle
    /\ TeamIdle

buildRest == <<lark_records, tree_result, builds, analysis, build_records, parentVars>>

\* the calls that are between their first and their last statement
InBuild == {t \in Threads : build_pc[t] \notin {"idle", "done"}}

\* history: a statement of t's call that runs while other calls are under way
\* marks t's call and theirs as overlapped
note_overlap(t) ==
    [o \in Threads |-> build_overlap[o] \/ (InBuild \ {t} # {} /\ o \in InBuild \cup {t})]

\* build_tree(records): the test `if not lark_records` and its return
CallBuildTree(t) ==
    /\ build_pc[t] = "idle"
    /\ IF build_records[t] = << >>
       THEN /\ build_pc' = [build_pc EXCEPT ![t] = "done"]
            /\ build_result' = [build_result EXCEPT ![t] =
                                   returned_forest(<< >>, filtered_stats)]
       ELSE /\ build_pc' = [build_pc EXCEPT ![t] = "reset"]
            /\ UNCHANGED build_result
    /\ UNCHANGED <<filtered_stats, build_pos, buildRest>>
    /\ build_overlap' = note_overlap(t)
    /\ UNCHANGED nonTreeVars

\* self.filtered_stats = {'empty_story_no': 0, ...}
ResetStats(t) ==
    /\ build_pc[t] = "reset"
    /\ filtered_stats' = reset_stats(filtered_stats)
    /\ build_pos' = [build_pos EXCEPT ![t] = 1]
    /\ build_pc' = [build_pc EXCEPT ![t] = "parse"]
    /\ UNCHANGED <<build_result, buildRest>>
    /\ build_overlap' = note_overlap(t)
    /\ UNCHANGED nonTreeVars

\* node = self._parse_record(record), which counts the record
ParseRecord(t) ==
    /\ build_pc[t] = "parse"
    /\ filtered_stats' = count_record(filtered_stats, build_records[t][build_pos[t]])
    /\ build_pos' = [build_pos EXCEPT ![t] = @ + 1]
    /\ build_pc' = [build_pc EXCEPT ![t] =
                       IF build_pos[t] = Len(build_records[t]) THEN "link" ELSE "parse"]
    /\ UNCHANGED <<build_result, buildRest>>
    /\ build_overlap' = note_overlap(t)
    /\ UNCHANGED nonTreeVars

\* the linking, the levels and `return {'trees': ..., 'metadata': ...}`
ReturnBuild(t) ==
    /\ build_pc[t] = "link"
    /\ build_result' = [build_result EXCEPT ![t] =
                           returned_forest(build_records[t], filtered_stats)]
    /\ build_pc' = [build_pc EXCEPT ![t] = "done"]
    /\ UNCHANGED <<filtered_stats, build_pos, buildRest>>
    /\ build_overlap' = note_overlap(t)
    /\ UNCHANGED nonTreeVars

BuildsNext ==
    \E t \in Threads :
        \/ CallBuildTree(t)
        \/ ResetStats(t)
        \/ ParseRecord(t)
        \/ ReturnBuild(t)

SpecBuilds == BuildsInit /\ [][BuildsNext]_vars

(***************************************************************************)
(* _extract_parent_id: the fields of one record are drawn and the parent   *)
(* reference is extracted from them.                                       *)
(***************************************************************************)
\* self.parent_field_names in its configured order (the second default name
\* is written in ASCII here)
parent_field_names == <<"Parent Tickets", "parent record", "parent">>

\* a field value as the tests of _extract_parent_id see it:
\*   type "absent": the key is missing, or the value is None, "" or []
\*   type "str":    a non-empty string, id
\*   type "list":   a non-empty list; first is "dict" when its first element
\*                  is a dict, whose 'record_ids' is record_ids (<< >> when
\*                  the key is missing or the list is empty), "other" when not
\*   type "other":  any other true value (a number, a dict)
FieldValue(type, id, first, record_ids) ==
    [type |-> type, id |-> id, first |-> first, record_ids |-> record_ids]

FieldValues ==
    {FieldValue("absent", NoId, "none", << >>)}
        \cup {FieldValue("str", id, "none", << >>) : id \in {"A", "B"}}
        \cup {FieldValue("list", NoId, "dict", ids) : ids \in {<< >>, <<"A", "B">>, <<"B">>}}
        \cup {FieldValue("list", NoId, "other", << >>)}
        \cup {FieldValue("other", NoId, "none", << >>)}

FieldNames == {parent_field_names[i] : i \in 1..Len(parent_field_names)}

RECURSIVE extract_from(_, _)
\* the loop of _extract_parent_id from candidate i on
extract_from(f, i) ==
    IF i > Len(parent_field_names) THEN NoId
    ELSE LET parent_data == f[parent_field_names[i]]
         IN  IF parent_data.type = "absent" THEN extract_from(f, i + 1)
             ELSE IF parent_data.type = "list"
                  THEN IF parent_data.first = "dict" /\ parent_data.record_ids # << >>
                       THEN parent_data.record_ids[1]
                       ELSE extract_from(f, i + 1)
             ELSE IF parent_data.type = "str" THEN parent_data.id
             ELSE extract_from(f, i + 1)

\* TreeBuilder._extract_parent_id(fields); NoId stands for None
extract_parent_id(f) == extract_from(f, 1)

ParentInit ==
    /\ fields \in [FieldNames -> FieldValues]
    /\ extracted_parent = NotExtracted
    /\ lark_records = << >>
    /\ filtered_stats = ZeroStats
    /\ tree_result = NoResult
    /\ builds = 0
    /\ analysis = NoResult
    /\ BuildsIdle
    /\ ExecIdle
    /\ AuthIdle
    /\ RateIdle
    /\ ClientIdle
    /\ MetricsIdle
    /\ TeamIdle

\* parent_id = self._extract_parent_id(fields)
ExtractParentId ==
    /\ extracted_parent = NotExtracted
    /\ extracted_parent' = extract_parent_id(fields)
    /\ UNCHANGED <<fields, lark_records, filtered_stats, tree_result, builds, analysis,
                   buildVars>>
    /\ UNCHANGED nonTreeVars

ParentNext == ExtractParentId

SpecParent == ParentInit /\ [][ParentNext]_vars

(***************************************************************************)
(* RequestManager._update_metrics, for the threads that share one client.  *)
(* No lock guards the counters: `self.requests_total += 1` reads the       *)
(* attribute, adds 1 and writes it back, and another thread can run        *)
(* between the read and the write.  A thread is at                         *)
(*   "idle"          outside the call                                      *)
(*   "store_total"   requests_total read, not written back                 *)
(*   "load_failed"   before `self.requests_failed += 1`                    *)
(*   "store_failed"  requests_failed read, not written back                *)
(* LarkClient._update_metrics does the same on self.metrics.               *)
(***************************************************************************)
\* the calls of _update_metrics made in one behaviour
MaxUpdates == 4

MetricsInit ==
    /\ ExecIdle
    /\ TreeIdle
    /\ AuthIdle
    /\ RateIdle
    /\ ClientIdle
    /\ MetricsIdle
    /\ TeamIdle

metricRest == <<execCall, treeVars, teamVars, clock, authVars, rateVars, clientVars>>

\* _update_metrics(response_time, success) is called and reads requests_total
LoadTotal(t) ==
    /\ um_pc[t] = "idle"
    /\ um_calls < MaxUpdates
    /\ um_calls' = um_calls + 1
    /\ \E success \in BOOLEAN : um_success' = [um_success EXCEPT ![t] = success]
    /\ um_loaded' = [um_loaded EXCEPT ![t] = requests_total]
    /\ um_pc' = [um_pc EXCEPT ![t] = "store_total"]
    /\ UNCHANGED <<requests_total, requests_failed, um_done, um_failed>>
    /\ UNCHANGED metricRest

\* requests_total is written; `if not success:`
StoreTotal(t) ==
    /\ um_pc[t] = "store_total"
    /\ requests_total' = um_loaded[t] + 1
    /\ IF um_success[t]
       THEN /\ um_pc' = [um_pc EXCEPT ![t] = "idle"]
            /\ um_done' = um_done + 1
       ELSE /\ um_pc' = [um_pc EXCEPT ![t] = "load_failed"]
            /\ UNCHANGED um_done
    /\ UNCHANGED <<requests_failed, um_loaded, um_success, um_calls, um_failed>>
    /\ UNCHANGED metricRest

\* requests_failed is read
LoadFailed(t) ==
    /\ um_pc[t] = "load_failed"
    /\ um_loaded' = [um_loaded EXCEPT ![t] = requests_failed]
    /\ um_pc' = [um_pc EXCEPT ![t] = "store_failed"]
    /\ UNCHANGED <<requests_total, requests_failed, um_success, um_calls, um_done,
                   um_failed>>
    /\ UNCHANGED metricRest

\* requests_failed is written and the call ends
StoreFailed(t) ==
    /\ um_pc[t] = "store_failed"
    /\ requests_failed' = um_loaded[t] + 1
    /\ um_pc' = [um_pc EXCEPT ![t] = "idle"]
    /\ um_done' = um_done + 1
    /\ um_failed' = um_failed + 1
    /\ UNCHANGED <<requests_total, um_loaded, um_success, um_calls>>
    /\ UNCHANGED metricRest

MetricsNext ==
    \E t \in Threads :
        \/ LoadTotal(t)
        \/ StoreTotal(t)
        \/ LoadFailed(t)
        \/ StoreFailed(t)

SpecMetrics == MetricsInit /\ [][MetricsNext]_vars

\* C36: with several threads using one client, the unlocked updates of
\* requests_total and requests_failed lose no increment: in every state
\* requests_failed <= requests_total, and when no update is under way
\* requests_total is the number of updates performed and requests_failed the
\* number of those that reported a failure.
C36_NoLostIncrement ==
    /\ requests_failed <= requests_total
    /\ (\A t \in Threads : um_pc[t] = "idle") =>
           /\ requests_total = um_done
           /\ requests_failed = um_failed

(***************************************************************************)
(* TeamManager.team_lock and the refresh requests of one team.  Each       *)
(* request of api_refresh_team is at                                       *)
(*   "idle"      not made, or answered 409, or its thread has ended        *)
(*   "started"   its background thread runs, before `with team_lock(...)`  *)
(*   "create"    in team_lock, past the test of the lock file, before the  *)
(*               file is written                                           *)
(*   "rejected"  in team_lock, the exception raised, before the finally    *)
(*   "body"      inside the with block                                     *)
(* Times are in seconds.                                                   *)
(***************************************************************************)
\* `> 600`: the age past which a lock file is taken for stale
LockTimeout == 600
\* the seconds between two readings of the clock
TeamTickLen == 300
\* the last second of the clock
MaxTeamClock == 900

\* the lock file exists and is not older than the timeout
fresh(file, now) == file.exists /\ ~(now - file.mtime > LockTimeout)

\* TeamManager._get_team_status, for a team without mindmap file: the status
\* and the lock file afterwards (a stale lock file is removed)
get_team_status(file, now) ==
    IF file.exists
    THEN IF now - file.mtime > LockTimeout
         THEN [status |-> "idle", file |-> NoLockFile]
         ELSE [status |-> "generating", file |-> file]
    ELSE [status |-> "idle", file |-> file]

\* `if os.path.exists(lock_file): os.remove(lock_file)` of the finally clause
remove_if_exists(file) == NoLockFile

TeamInit ==
    /\ TeamIdle
    /\ MetricsIdle
    /\ ExecIdle
    /\ TreeIdle
    /\ AuthIdle
    /\ RateIdle
    /\ ClientIdle

teamRest == <<execVars, treeVars, metricVars, authVars, rateVars, clientVars>>

\* api_refresh_team: 409 when is_team_busy, else the background thread starts
api_refresh_team(t) ==
    /\ team_pc[t] = "idle"
    /\ LET st == get_team_status(lock_file, clock)
       IN  /\ lock_file' = st.file
           /\ team_pc' = [team_pc EXCEPT ![t] =
                             IF st.status = "generating" THEN "idle" ELSE "started"]
    /\ UNCHANGED clock
    /\ UNCHANGED teamRest

\* team_lock: the test of the lock file; a stale file is removed, a fresh one
\* raises
team_lock(t) ==
    /\ team_pc[t] = "started"
    /\ IF lock_file.exists
       THEN IF clock - lock_file.mtime > LockTimeout
            THEN /\ lock_file' = NoLockFile
                 /\ team_pc' = [team_pc EXCEPT ![t] = "create"]
            ELSE /\ team_pc' = [team_pc EXCEPT ![t] = "rejected"]
                 /\ UNCHANGED lock_file
       ELSE /\ team_pc' = [team_pc EXCEPT ![t] = "create"]
            /\ UNCHANGED lock_file
    /\ UNCHANGED clock
    /\ UNCHANGED teamRest

\* with open(lock_file, 'w') as f: f.write(...), then the yield
CreateLockFile(t) ==
    /\ team_pc[t] = "create"
    /\ lock_file' = [exists |-> TRUE, mtime |-> clock]
    /\ team_pc' = [team_pc EXCEPT ![t] = "body"]
    /\ UNCHANGED clock
    /\ UNCHANGED teamRest

\* the with block is left: the finally clause
LeaveLock(t) ==
    /\ team_pc[t] = "body"
    /\ lock_file' = remove_if_exists(lock_file)
    /\ team_pc' = [team_pc EXCEPT ![t] = "idle"]
    /\ UNCHANGED clock
    /\ UNCHANGED teamRest

\* the exception of a rejected attempt leaves team_lock: the finally clause,
\* then the except branch of generate_mindmap and the end of the thread
LeaveRejected(t) ==
    /\ team_pc[t] = "rejected"
    /\ lock_file' = remove_if_exists(lock_file)
    /\ team_pc' = [team_pc EXCEPT ![t] = "idle"]
    /\ UNCHANGED clock
    /\ UNCHANGED teamRest

\* time passes
TeamTick ==
    /\ clock + TeamTickLen <= MaxTeamClock
    /\ clock' = clock + TeamTickLen
    /\ UNCHANGED teamVars
    /\ UNCHANGED teamRest

TeamNext ==
    \/ \E t \in Threads :
          \/ api_refresh_team(t)
          \/ team_lock(t)
          \/ CreateLockFile(t)
          \/ LeaveLock(t)
          \/ LeaveRejected(t)
    \/ TeamTick

SpecTeam == TeamInit /\ [][TeamNext]_vars

\* the requests whose thread is inside the with block
InBody == {t \in Threads : team_pc[t] = "body"}

\* C38: for any interleaving of refresh requests, at most one thread at a
\* time is inside the body of team_lock(team_id) for the team while the lock
\* file is younger than 10 minutes.
C38_OneHolderWhileLockFresh ==
    fresh(lock_file, clock) => Cardinality(InBody) <= 1

\* C39: an attempt to enter team_lock that is rejected because another
\* holder's fresh lock file exists leaves that lock file in place: a team
\* that reports "generating" still does when the rejected attempt has left.
C39_RejectedAttemptKeepsLockFile ==
    [][\A t \in Threads :
          (team_pc[t] = "rejected" /\ team_pc'[t] # "rejected") =>
              /\ lock_file' = lock_file
              /\ get_team_status(lock_file, clock).status = "generating" =>
                     get_team_status(lock_file', clock').status = "generating"]_vars

\* the positions of the candidates whose value is non-empty
NonEmptyCandidates(f) ==
    {i \in 1..Len(parent_field_names) : f[parent_field_names[i]].type # "absent"}

\* the identifier a value holds: the string itself, or the first identifier
\* of the first element of a nested value; NoId when it holds none
IdentifierOf(v) ==
    IF v.type = "str" THEN v.id
    ELSE IF v.type = "list" /\ v.first = "dict" /\ v.record_ids # << >>
         THEN v.record_ids[1]
    ELSE NoId

\* the first non-empty candidate alone decides
FirstNonEmptyWins(f, result) ==
    IF NonEmptyCandidates(f) = {} THEN result = NoId
    ELSE LET first == CHOOSE i \in NonEmptyCandidates(f) :
                          \A j \in NonEmptyCandidates(f) : i <= j
         IN  result = IdentifierOf(f[parent_field_names[first]])

\* the first non-empty candidate holds an identifier
FirstNonEmptyHoldsId(f) ==
    /\ NonEmptyCandidates(f) # {}
    /\ LET first == CHOOSE i \in NonEmptyCandidates(f) :
                        \A j \in NonEmptyCandidates(f) : i <= j
       IN  IdentifierOf(f[parent_field_names[first]]) # NoId

\* C30: _extract_parent_id returns the identifier taken from the first
\* candidate field name, in configured order, whose value is non-empty (a
\* string as is, a nested value's first identifier of its first element), and
\* no later candidate is consulted once an earlier one has a non-empty value.
C30_FirstNonEmptyCandidateWins ==
    extracted_parent # NotExtracted => FirstNonEmptyWins(fields, extracted_parent)

\* where the first non-empty candidate holds an identifier, it is returned
C30_HoldsWhenFirstHoldsId ==
    (extracted_parent # NotExtracted /\ FirstNonEmptyHoldsId(fields))
        => FirstNonEmptyWins(fields, extracted_parent)

(***************************************************************************)
(* Claims about the tree construction (checked under SpecTree)             *)
(***************************************************************************)
\* the k-th ancestor of node along the declared parents, NoId once the chain
\* leaves the node set
RECURSIVE AncestorAt(_, _, _, _)
AncestorAt(nodeset, parent, node, k) ==
    IF k = 0 THEN node
    ELSE LET a == AncestorAt(nodeset, parent, node, k - 1)
         IN  IF a = NoId \/ a \notin nodeset THEN NoId
             ELSE IF parent[a] \in nodeset THEN parent[a] ELSE NoId

\* the declared parent references of the nodes form a cycle
HasCycle(order, parent) ==
    \E node \in SeqToSet(order) : \E k \in 1..Len(order) :
        AncestorAt(SeqToSet(order), parent, node, k) = node

\* the valid records of the input, as build_tree parses them
ValidNodes == parse_nodes(lark_records, Len(lark_records))
ValidRecordsCyclic == HasCycle(ValidNodes.order, ValidNodes.parent)

AnalyzerNodes == analyzer_parse(lark_records, Len(lark_records))
AnalyzerRecordsCyclic == HasCycle(AnalyzerNodes.order, AnalyzerNodes.parent)

\* C3: when the parent references of the valid records form a cycle, the
\* tree build (TreeBuilder.build_tree, and TreeAnalyzer's analysis of the
\* records) raises a structural-cycle fault instead of returning a forest.
C3_CycleRaises ==
    /\ (tree_result.built /\ ValidRecordsCyclic) => tree_result.raised
    /\ (analysis.built /\ AnalyzerRecordsCyclic) => analysis.raised

\* C4: for a record list whose parent references contain no cycle,
\* build_tree ends (the level traversal does not run on), every root of the
\* returned forest has level 0 and every other node has the level of its
\* parent plus 1.
C4_LevelsOfAcyclicInput ==
    (tree_result.built /\ ~ValidRecordsCyclic) =>
        /\ ~tree_result.raised
        /\ \A r \in SeqToSet(tree_result.trees) :
               tree_result.level[r] = 0 /\ tree_result.parent_id[r] = NoId
        /\ \A n \in tree_result.nodes :
               /\ \A c \in SeqToSet(tree_result.children[n]) :
                      /\ c \in tree_result.nodes
                      /\ tree_result.parent_id[c] = n
                      /\ tree_result.level[c] = tree_result.level[n] + 1
               /\ n \notin SeqToSet(tree_result.trees) =>
                      /\ tree_result.parent_id[n] \in tree_result.nodes
                      /\ tree_result.level[n] =
                             tree_result.level[tree_result.parent_id[n]] + 1

\* C4 witness: a chain of three records was built into levels 0, 1, 2
C4_Witness ==
    /\ tree_result.built
    /\ ~ValidRecordsCyclic
    /\ \E n \in tree_result.nodes : tree_result.level[n] = 2

\* the places of the input list whose record has the given kind of key
EmptyKeyed(records) == {i \in 1..Len(records) : records[i].story_no = EmptyStory}
BadKeyed(records) ==
    {i \in 1..Len(records) :
        records[i].story_no # EmptyStory /\ ~story_pattern(records[i].story_no)}
Identified(records) == {i \in 1..Len(records) : records[i].record_id # NoId}

\* every identifier that occurs in the returned forest: as a root, as a node
\* reached from the roots, or in a node's list of children
InForest(result) ==
    SeqToSet(result.trees) \cup result.nodes
    \cup UNION {SeqToSet(result.children[id]) : id \in RecordIds}

\* no node of the forest stems from a record with an empty or non-matching
\* key: every identifier in the forest is that of a record with a valid key
RejectedAbsent(result, records) ==
    \A id \in InForest(result) :
        \E i \in 1..Len(records) :
            /\ records[i].record_id = id
            /\ i \notin EmptyKeyed(records) \cup BadKeyed(records)

\* C20 as stated: in build_tree every record whose story-number key is
\* empty is absent from the forest and adds 1 to empty_story_no, and every
\* record whose key is non-empty but does not match the pattern is absent
\* from the forest and adds 1 to invalid_format.
C20_RejectedRecordsCounted ==
    (tree_result.built /\ lark_records # << >>) =>
        /\ RejectedAbsent(tree_result, lark_records)
        /\ tree_result.metadata.filtering_stats.empty_story_no
               = Cardinality(EmptyKeyed(lark_records))
        /\ tree_result.metadata.filtering_stats.invalid_format
               = Cardinality(BadKeyed(lark_records))

\* C20, amended: the same for the records that carry a record_id; a record
\* without record_id is dropped before its key is read and is counted
\* nowhere.
C20_IdentifiedRejectedRecordsCounted ==
    (tree_result.built /\ lark_records # << >>) =>
        /\ RejectedAbsent(tree_result, lark_records)
        /\ tree_result.metadata.filtering_stats.empty_story_no
               = Cardinality(EmptyKeyed(lark_records) \cap Identified(lark_records))
        /\ tree_result.metadata.filtering_stats.invalid_format
               = Cardinality(BadKeyed(lark_records) \cap Identified(lark_records))

\* a list with an empty key, a non-matching key and a valid record was built:
\* one of each count, and the valid record alone in the forest
C20_Witness ==
    /\ tree_result.built
    /\ Cardinality(EmptyKeyed(lark_records) \cap Identified(lark_records)) = 1
    /\ Cardinality(BadKeyed(lark_records) \cap Identified(lark_records)) = 1
    /\ tree_result.metadata.filtering_stats.empty_story_no = 1
    /\ tree_result.metadata.filtering_stats.invalid_format = 1
    /\ Cardinality(InForest(tree_result)) = 1

\* the nodes whose declared parent is no node: it names a record that is
\* absent from the batch or one that produced no node
Unresolved(parsed) ==
    {id \in SeqToSet(parsed.order) :
        parsed.parent[id] # NoId /\ parsed.parent[id] \notin SeqToSet(parsed.order)}

\* the node is a root of the forest, with level 0 and no parent
IsRoot(result, id) ==
    /\ id \in SeqToSet(result.trees)
    /\ result.level[id] = 0
    /\ result.parent_id[id] = NoId

BuilderRootsUnresolved ==
    (tree_result.built /\ ~tree_result.raised) =>
        \A id \in Unresolved(ValidNodes) : IsRoot(tree_result, id)

AnalyzerRootsUnresolved ==
    (analysis.built /\ ~analysis.raised) =>
        \A id \in Unresolved(AnalyzerNodes) : IsRoot(analysis, id)

\* C21: a valid record whose parent reference names a record that is absent
\* from the batch, or one rejected by validation, is a root of the returned
\* forest (level 0, no parent), in TreeBuilder.build_tree and in
\* TreeAnalyzer's _build_tree_relationships.
C21_UnresolvedParentBecomesRoot ==
    BuilderRootsUnresolved /\ AnalyzerRootsUnresolved

\* the number of valid records whose declared parent is not among the valid
\* records of the batch
ClaimedOrphans == Cardinality(Unresolved(ValidNodes))

\* C22: the result of a tree build (the metadata of build_tree, the
\* statistics of TreeAnalyzer) carries an orphan_nodes count equal to the
\* number of valid records whose declared parent identifier does not exist
\* among the valid records, and counting the orphans does not raise.
C22_OrphanCountCarried ==
    /\ (tree_result.built /\ lark_records # << >>) =>
          /\ "orphan_nodes" \in DOMAIN tree_result.metadata
          /\ tree_result.metadata.orphan_nodes = ClaimedOrphans
    /\ (analysis.built /\ lark_records # << >>) =>
          /\ ~analysis.raised
          /\ analysis.orphan_nodes = ClaimedOrphans

\* C23: a second build_tree call on the same TreeBuilder with the same
\* record list returns the same forest (roots, nodes, children in the same
\* order, parents, levels) and the same filtering counts as the first.
C23_SecondBuildSame ==
    [][(BuildTree /\ tree_result.built) => tree_result' = tree_result]_vars

\* a list of three valid records, a parent and its two children, has been
\* built twice
C23_Witness ==
    /\ builds = 2
    /\ tree_result.built
    /\ tree_result.metadata.filtering_stats.valid_records = 3
    /\ \E n \in tree_result.nodes : Len(tree_result.children[n]) = 2

\* what build_tree(records) returns when it runs alone on the builder
AloneResult(records) == returned_forest(records, build_tree(ZeroStats, records).stats)

\* C24: of two build_tree calls that run concurrently on the shared
\* TreeBuilder with different inputs, each returns the forest and the
\* filtering counts that the call returns when it runs alone.
C24_ConcurrentBuildsIndependent ==
    \A t \in Threads :
        build_pc[t] = "done" => build_result[t] = AloneResult(build_records[t])

\* C31: the filtering counts in the metadata a build_tree call returns count
\* only the records passed to that call, whatever calls the TreeBuilder served
\* before; a call with an empty list returns the three counts as 0.  (Calls
\* that ran while another call was under way are left to C24.)
C31_CountsOnlyThisCall ==
    \A t \in Threads :
        (build_pc[t] = "done" /\ ~build_overlap[t]) =>
            build_result[t].metadata.filtering_stats
                = build_tree(ZeroStats, build_records[t]).stats

\* the same for the calls with a non-empty list
C31_NonEmptyCallsCountOwnRecords ==
    \A t \in Threads :
        (build_pc[t] = "done" /\ ~build_overlap[t] /\ build_records[t] # << >>) =>
            build_result[t].metadata.filtering_stats
                = build_tree(ZeroStats, build_records[t]).stats

\* the place at which the first valid record with the identifier occurs
FirstValidAt(records, id) ==
    CHOOSE i \in 1..Len(records) :
        /\ records[i].record_id = id /\ parse_record(records[i]) = "valid"
        /\ \A j \in 1..(i - 1) :
               ~(records[j].record_id = id /\ parse_record(records[j]) = "valid")

\* the nodes whose declared parent is another node
Resolved(parsed) ==
    {id \in SeqToSet(parsed.order) :
        parsed.parent[id] \in SeqToSet(parsed.order) \ {id}}

\* in the returned forest the node is a child of its declared parent and of
\* no other node, once
ChildOfDeclaredParent(result, parsed, id) ==
    /\ id \in result.nodes
    /\ result.parent_id[id] = parsed.parent[id]
    /\ \A n \in RecordIds :
          Cardinality({k \in 1..Len(result.children[n]) : result.children[n][k] = id})
              = IF n = parsed.parent[id] /\ n \in result.nodes THEN 1 ELSE 0

\* the children of every node of the forest are in the order in which their
\* records first occur in the input
ChildrenInInputOrder(result, records) ==
    \A n \in result.nodes :
        \A i \in 1..Len(result.children[n]) : \A j \in (i + 1)..Len(result.children[n]) :
            FirstValidAt(records, result.children[n][i])
                < FirstValidAt(records, result.children[n][j])

\* C27: in the forest returned by build_tree every valid record whose parent
\* reference names another valid record is a child of exactly that parent,
\* and the children of each node are in the order in which their records
\* first occur in the input list.
C27_ChildrenOfDeclaredParentInOrder ==
    (tree_result.built /\ lark_records # << >>) =>
        /\ \A id \in Resolved(ValidNodes) :
               ChildOfDeclaredParent(tree_result, ValidNodes, id)
        /\ ChildrenInInputOrder(tree_result, lark_records)

\* how often the identifier occurs in the forest: as a root, and as a child
\* of a node of the forest
Occurrences(result, id) ==
    Cardinality({i \in 1..Len(result.trees) : result.trees[i] = id})
        + Cardinality({pc \in result.nodes \X (1..MaxRecords) :
              pc[2] <= Len(result.children[pc[1]]) /\ result.children[pc[1]][pc[2]] = id})

\* the places of the input list whose record is counted in valid_records
ValidPlaces(records) == {i \in 1..Len(records) : parse_record(records[i]) = "valid"}

\* the forest holds each counted record as exactly one node
OneNodePerValidRecord(result, records) ==
    /\ \A i \in ValidPlaces(records) : Occurrences(result, records[i].record_id) = 1
    /\ \A id \in RecordIds : Occurrences(result, id) <= 1
    /\ Cardinality(result.nodes) = result.metadata.filtering_stats.valid_records

\* no two valid records of the input carry the same record_id
NoRepeatedValidId(records) ==
    \A i \in ValidPlaces(records) : \A j \in ValidPlaces(records) :
        records[i].record_id = records[j].record_id => i = j

\* C32: for every input list (repeated record identifiers, self-references
\* and cyclic parent references included) each record counted in
\* valid_records is exactly one node of the returned forest: the forest has
\* valid_records nodes and no record identifier occurs twice in it.
C32_ForestHoldsEveryValidRecordOnce ==
    (tree_result.built /\ lark_records # << >>) =>
        OneNodePerValidRecord(tree_result, lark_records)

\* the same for the lists without a parent cycle and without a repeated
\* identifier among the valid records
C32_HoldsWithoutCycleAndRepeat ==
    (tree_result.built /\ lark_records # << >> /\ ~ValidRecordsCyclic
        /\ NoRepeatedValidId(lark_records)) =>
        OneNodePerValidRecord(tree_result, lark_records)

\* in no forest does an identifier occur twice
C32_NoIdentifierTwice ==
    tree_result.built => \A id \in RecordIds : Occurrences(tree_result, id) <= 1

\* the sum of the three filtering counts of a result
CountedRecords(result) ==
    result.metadata.filtering_stats.empty_story_no
        + result.metadata.filtering_stats.invalid_format
        + result.metadata.filtering_stats.valid_records

\* C37: after build_tree on a non-empty record list, empty_story_no +
\* invalid_format + valid_records is the number of input records that carry
\* a non-empty record_id; a record without record_id is dropped and counted
\* under none of the three.
C37_CountsCoverIdentifiedRecords ==
    (tree_result.built /\ lark_records # << >>) =>
        CountedRecords(tree_result) = Cardinality(Identified(lark_records))

\* a list of three records, one of them without record_id, was built: the
\* counts add up to 2, one rejected and one valid
C37_Witness ==
    /\ tree_result.built
    /\ Len(lark_records) = 3
    /\ Cardinality(Identified(lark_records)) = 2
    /\ CountedRecords(tree_result) = 2
    /\ tree_result.metadata.filtering_stats.valid_records = 1
    /\ tree_result.metadata.filtering_stats.invalid_format = 1

(***************************************************************************)
(* Claims about the API client (checked under SpecClient)                  *)
(***************************************************************************)
Last(sq) == sq[Len(sq)]

\* the request in progress (or the last one of the returned operation) ended
\* without a token: get_valid_token returned None
EndedWithoutToken ==
    /\ Len(client_trace) >= 2
    /\ Last(client_trace).ev = "response"
    /\ client_trace[Len(client_trace) - 1].ev = "token"
    /\ client_trace[Len(client_trace) - 1].tok = NoToken

\* C11: when all auth_retries refresh attempts fail, get_valid_token returns
\* no credential after exactly auth_retries attempts, and
\* _make_authenticated_request returns an AUTHENTICATION failure: no
\* wait_if_needed call (so no timestamp), no HTTP attempt, and no further
\* step of the operation (no other refresh), which returns.
C11_NoTokenFailsTheCall ==
    /\ \A i \in 1..Len(client_trace) :
          (client_trace[i].ev = "token" /\ client_trace[i].tok = NoToken) =>
              /\ i + 1 = Len(client_trace)
              /\ client_trace[i + 1].ev = "response"
              /\ ~client_trace[i + 1].resp.success
              /\ client_trace[i + 1].resp.error_type = AUTHENTICATION
    /\ EndedWithoutToken =>
          /\ client_pc = "idle"
          /\ client_result.returned
          /\ auth_result[ClientThread] = [returned |-> TRUE, token |-> NoToken]
          /\ AttemptsOf(auth_log[ClientThread]) = AuthRetries
          /\ \A j \in 1..Len(auth_log[ClientThread]) :
                 auth_log[ClientThread][j].ev \in {"fail", "sleep"}
          /\ rate_call[ClientThread] = NoRateCall
          /\ rm_pc = "idle"
          /\ attempt_log = << >>
          /\ bearer = NoToken
    /\ (client_pc = "token" /\ auth_result[ClientThread].returned
            /\ auth_log[ClientThread] # << >>
            /\ Last(auth_log[ClientThread]).ev = "fail") =>
          auth_result[ClientThread].token = NoToken

\* the second page request of get_table_records ended without a token
C11_Witness ==
    /\ EndedWithoutToken
    /\ client_result.returned
    /\ client_op.op = "records"
    /\ Last(client_trace).stage = "page"
    /\ Last(client_trace).cursor # NoCursor
    /\ AttemptsOf(auth_log[ClientThread]) = AuthRetries

\* C15: every request of the client obtains a valid credential, then waits
\* for rate admission, then sends the HTTP request with that credential as
\* bearer token; no HTTP attempt of a request is made before both steps
\* have completed.
C15_TokenThenAdmissionThenSend ==
    /\ \A i \in 1..Len(client_trace) :
          /\ client_trace[i].ev = "admit" =>
                /\ i >= 2
                /\ client_trace[i - 1].ev = "token"
                /\ client_trace[i - 1].tok # NoToken
          /\ client_trace[i].ev = "send" =>
                /\ i >= 3
                /\ client_trace[i - 1].ev = "admit"
                /\ client_trace[i].tok = client_trace[i - 2].tok
    /\ (rm_pc # "idle" \/ attempt_log # << >>) =>
          /\ client_pc \in {"exec", "idle"}
          /\ auth_result[ClientThread].returned
          /\ auth_result[ClientThread].token # NoToken
          /\ rate_call[ClientThread].returned_at # NoTime
          /\ client_pc = "exec" =>
                /\ Last(client_trace).ev = "send"
                /\ bearer = auth_result[ClientThread].token

\* the request for a second page is making an HTTP attempt, with a token
\* obtained by a refresh of its own
C15_Witness ==
    /\ client_pc = "exec"
    /\ rm_pc = "attempt"
    /\ client_stage = "page"
    /\ page_token # NoCursor
    /\ auth_log[ClientThread] # << >>
    /\ bearer = token

\* the page requests sent and the page responses received by the operation
PageSends == SelectSeq(client_trace, LAMBDA e : e.ev = "send" /\ e.stage = "page")
PageResponses == SelectSeq(client_trace, LAMBDA e : e.ev = "response" /\ e.stage = "page")

\* the items of the first n of the page responses, in order
RECURSIVE ItemsOf(_, _)
ItemsOf(pages, n) == IF n = 0 THEN << >> ELSE ItemsOf(pages, n - 1) \o pages[n].data.items

\* the last page as claimed: has_more false, or no page_token
ClaimedLastPage(data) == ~data.has_more \/ data.page_token = NoCursor

RecordsReturned ==
    /\ client_result.returned
    /\ client_op.op = "records"
    /\ PageResponses # << >>

\* C16: when every page request succeeds, the call returns the concatenation
\* of the pages' items in the order served, each request after the first
\* carries the cursor of the previous page, and the call stops after the
\* first page that reports has_more false or carries no page_token.
C16_PagesConcatenated ==
    (RecordsReturned /\ \A k \in 1..Len(PageResponses) : PageResponses[k].resp.success) =>
        LET n == Len(PageResponses) IN
        /\ client_result.value = Value("list", NoObj, ItemsOf(PageResponses, n))
        /\ Len(PageSends) = n
        /\ PageSends[1].cursor = NoCursor
        /\ \A k \in 2..n : PageSends[k].cursor = PageResponses[k - 1].data.page_token
        /\ ClaimedLastPage(PageResponses[n].data)
        /\ \A k \in 1..(n - 1) : ~ClaimedLastPage(PageResponses[k].data)

\* two pages were served and the call returned their four records
C16_Witness ==
    /\ RecordsReturned
    /\ Len(PageResponses) = 2
    /\ \A k \in 1..2 : PageResponses[k].resp.success
    /\ client_result.value.items = Items(1) \o Items(2)

\* C17: when the request for page n fails, pagination stops, no further page
\* is requested and the call returns the records of pages 1 .. n-1 in order.
C17_FailedPageReturnsPartial ==
    \A n \in 1..Len(PageResponses) :
        ~PageResponses[n].resp.success =>
            /\ n = Len(PageResponses)
            /\ Last(client_trace) = PageResponses[n]
            /\ client_pc = "idle"
            /\ client_result.returned
            /\ client_result.value = Value("list", NoObj, ItemsOf(PageResponses, n - 1))

\* the request for page 2 failed with a SERVER outcome after the executor's
\* retries and the call returned the records of page 1
C17_Witness ==
    /\ RecordsReturned
    /\ Len(PageResponses) = 2
    /\ PageResponses[2].resp.error_type = SERVER
    /\ Len(attempt_log) = MaxRetries + 1
    /\ client_result.value.items = Items(1)

\* C18: once resolve_app_token(t) has returned a container id c, a later
\* resolve_app_token(t) returns c without fetching a credential, recording a
\* timestamp or sending a request (the cached id never changes); a failed
\* resolution stores nothing, and a call that finds nothing cached starts a
\* request.
C18_ResolutionCached ==
    [][\A w \in WikiTokens :
          /\ (client_op = [op |-> "resolve", wiki |-> w] /\ client_result'.returned
                  /\ ~client_result.returned /\ client_result'.value # None) =>
                 token_cache'[w] = client_result'.value.obj
          /\ token_cache[w] # NoObj => token_cache'[w] = token_cache[w]
          /\ (ClientCall("resolve", w) /\ token_cache[w] # NoObj) =>
                 /\ client_result' = [returned |-> TRUE,
                                      op |-> [op |-> "resolve", wiki |-> w],
                                      value |-> Value("obj", token_cache[w], << >>)]
                 /\ client_pc' = "idle"
                 /\ client_trace' = << >>
                 /\ UNCHANGED <<authVars, rateVars, execVars, client_metrics>>
          /\ (ClientCall("resolve", w) /\ token_cache[w] = NoObj) =>
                 client_pc' = "token" /\ client_stage' = "resolve"
          /\ (client_stage = "resolve" /\ client_trace' # client_trace
                  /\ Last(client_trace').ev = "response"
                  /\ (~Last(client_trace').resp.success
                          \/ Last(client_trace').data.obj = NoObj)) =>
                 token_cache' = token_cache]_vars

\* the second resolve_app_token call has returned the cached id with no step
\* of a request, after the first call obtained it with one HTTP request
C18_Witness ==
    /\ client_ops = 2
    /\ client_result = [returned |-> TRUE, op |-> [op |-> "resolve", wiki |-> "w1"],
                        value |-> Value("obj", ObjOf("w1"), << >>)]
    /\ client_trace = << >>
    /\ client_metrics.requests_total = 1
    /\ rate_calls = 1

\* C19: whatever failed outcome a request ends with (authentication,
\* rate-limit, field-error, network, server, unknown), the operation returns:
\* resolve_app_token and get_table_schema return None and get_table_records
\* returns a list, empty when the resolution or the first page failed.
C19_FailuresReturnEmpty ==
    \A i \in 1..Len(client_trace) :
        (client_trace[i].ev = "response" /\ ~client_trace[i].resp.success) =>
            /\ client_trace[i].resp.error_type \in LarkErrorType
            /\ i = Len(client_trace)
            /\ client_pc = "idle"
            /\ client_result.returned
            /\ client_op.op \in {"resolve", "schema"} => client_result.value = None
            /\ client_op.op = "records" =>
                  /\ client_result.value.kind = "list"
                  /\ (client_trace[i].stage = "resolve" \/ Len(PageResponses) = 1) =>
                         client_result.value.items = << >>

\* get_table_schema has returned None after its schema request ended as a
\* RATE_LIMIT failure
C19_Witness ==
    /\ client_result.returned
    /\ client_op.op = "schema"
    /\ Last(client_trace).ev = "response"
    /\ Last(client_trace).stage = "schema"
    /\ Last(client_trace).resp.error_type = RATE_LIMIT
    /\ client_result.value = None

\* success and error classification exclude each other: a successful
\* response has no error_type and a failed one has one of LarkErrorType
WellFormed(r) ==
    /\ r.success <=> r.error_type = NoErrorType
    /\ ~r.success => r.error_type \in LarkErrorType

\* C25: every LarkResponse produced by the executor (one per attempt that
\* returns, and the result of the call) or by the credential manager
\* (_request_new_token) has success true exactly when error_type is absent.
C25_SuccessExcludesErrorType ==
    /\ \A i \in 1..Len(attempt_log) :
          attempt_log[i].cls # "exception" => WellFormed(attempt_log[i].out)
    /\ rm_pc = "done" => WellFormed(rm_result)
    /\ \A t \in Threads :
          token_response[t] # NoResponse => WellFormed(token_response[t])
    /\ \A raw \in RawResponses :
          ~make_single_request(raw).raised => WellFormed(make_single_request(raw).out)
    /\ \A o \in TokenOutcomes :
          o.kind # "exc" => WellFormed(request_new_token(o))

\* a request whose token came from a successful token response, after a
\* failed one, has succeeded at its second attempt after a SERVER failure
C25_Witness ==
    /\ rm_pc = "done"
    /\ rm_result.success
    /\ Len(attempt_log) = 2
    /\ attempt_log[1].cls = SERVER
    /\ token_response[ClientThread].success
    /\ AttemptsOf(auth_log[ClientThread]) = 2

\* the window has room at the current time: fewer than requests_per_minute
\* recorded timestamps are less than 60 s old
WindowHasRoom == Len(prune(request_timestamps, clock)) < RequestsPerMinute

\* C26: while one thread sleeps in a rate-limit wait inside wait_if_needed,
\* another thread that has called wait_if_needed and finds room in the window
\* is not held back by the sleeper: the lock it needs is free.
C26_SleepBlocksOnlyTheSleeper ==
    \A s \in Threads : \A o \in Threads \ {s} :
        (rate_pc[s] = "sleeping" /\ rate_pc[o] = "waiting" /\ WindowHasRoom) =>
            rate_lock = NoThread

\* the exponential backoff of the attempt, before the jitter
Backoff(att) == BaseDelay * Pow2(att)

\* C28: every delay slept between two attempts is at most retry_max_delay;
\* when the failed outcome carries a retry_after r the delay is
\* min(r, retry_max_delay), and otherwise it lies between
\* min(1.1 * base_delay * 2^attempt, retry_max_delay) and
\* min(1.3 * base_delay * 2^attempt, retry_max_delay).
C28_DelayWithinBounds ==
    rm_pc = "sleep" =>
        LET last == attempt_log[Len(attempt_log)]
        IN  /\ delay <= MaxDelay
            /\ IF last.cls # "exception" /\ last.out.retry_after # NoRetryAfter
               THEN delay = Min(last.out.retry_after * 10, MaxDelay)
               ELSE /\ delay >= Min((11 * Backoff(attempt)) \div 10, MaxDelay)
                    /\ delay <= Min((13 * Backoff(attempt)) \div 10, MaxDelay)

\* the attempt just made, when the step made one
AttemptMade == Len(attempt_log') = Len(attempt_log) + 1

\* C29: RequestManager.requests_total counts the HTTP attempts that produced
\* an outcome (one per attempt, retries included, over all the calls made),
\* requests_failed counts those whose outcome was not successful, and
\* requests_failed <= requests_total.  Both start at 0, an attempt adds what
\* the claim says, and nothing else changes them.
C29_MetricsCountAttempts ==
    /\ requests_total = 0 /\ requests_failed = 0
    /\ [][IF AttemptMade
          THEN LET cls == attempt_log'[Len(attempt_log')].cls
               IN  /\ requests_total' = requests_total
                          + (IF cls # "exception" THEN 1 ELSE 0)
                   /\ requests_failed' = requests_failed
                          + (IF cls \notin {"exception", "success"} THEN 1 ELSE 0)
          ELSE UNCHANGED <<requests_total, requests_failed>>]_vars
    /\ [](requests_failed <= requests_total)

\* the second request of an operation has ended; the two requests made three
\* counted attempts, one of them failed, and one attempt raised
C29_Witness ==
    /\ client_metrics.requests_total = 2
    /\ rm_pc = "done"
    /\ requests_total = 3
    /\ requests_failed = 1
    /\ \E i \in 1..Len(attempt_log) : attempt_log[i].cls = "exception"

\* the outcome of the attempt just made is an HTTP 401
UnauthorizedAttempt ==
    /\ AttemptMade
    /\ attempt_log'[Len(attempt_log')].cls # "exception"
    /\ is_unauthorized(attempt_log'[Len(attempt_log')].out)

\* the stored credential and its computed expiry
credential == <<token, token_expire_time, auth_refreshes>>

\* C33: an HTTP 401 outcome leaves the stored credential and its computed
\* expiry as they are and the call is not issued again: the executor returns
\* the outcome at once, the client hands it to the operation, which ends, and
\* the next request made before the computed expiry is sent with the same
\* bearer token, no token request having been made for it.
C33_UnauthorizedKeepsCredential ==
    /\ [][UnauthorizedAttempt =>
              /\ rm_pc' = "done"
              /\ is_unauthorized(rm_result')
              /\ UNCHANGED credential]_vars
    /\ [][(client_pc = "exec" /\ client_pc' # "exec" /\ is_unauthorized(rm_result)) =>
              /\ client_pc' = "idle"
              /\ UNCHANGED credential]_vars
    /\ [][(client_pc = "rate" /\ client_pc' = "exec" /\ unauthorized.seen
              /\ rate_call[ClientThread].at < unauthorized.expire) =>
              /\ bearer' = unauthorized.bearer
              /\ auth_log[ClientThread] = << >>
              /\ token_expire_time = unauthorized.expire
              /\ auth_refreshes = unauthorized.refreshes]_vars

\* the first operation ended with a 401; the request of the second, made
\* later and before the expiry, is out with the bearer token of the first
C33_Witness ==
    /\ client_ops = 2
    /\ client_pc = "exec"
    /\ rm_pc = "attempt"
    /\ unauthorized.seen
    /\ clock > 0
    /\ clock < unauthorized.expire
    /\ bearer = unauthorized.bearer
    /\ bearer # NoToken
    /\ auth_log[ClientThread] = << >>

\* the window after a call of wait_if_needed that met the window `met` and
\* read the time `now`: the pruned window and the one timestamp of the call
one_timestamp_added(met, now) == Append(prune(met, now), now)

====
